---------------------------- MODULE Spec2Model ----------------------------
(***************************************************************************)
(* A model of the Simplex blendshape-combination solver (blurstudio/       *)
(* Simplex): the JSON definition parser, the TriSpace builder and the      *)
(* per-call solve pipeline of the library under src/lib.                   *)
(*                                                                         *)
(* Doubles are modelled as extended rationals <<n, d>>: d > 0 is the       *)
(* finite value n/d in lowest terms, <<1,0>> and <<-1,0>> are the two      *)
(* infinities and <<0,0>> is NaN, with the IEEE rules for the operations   *)
(* the program applies to them.                                            *)
(***************************************************************************)
EXTENDS Integers, Sequences, FiniteSets, TLC

(***************************************************************************)
(* Extended rational arithmetic (the double operations of the program).    *)
(***************************************************************************)
IAbs(x) == IF x < 0 THEN -x ELSE x

ISgn(x) == IF x < 0 THEN -1 ELSE IF x > 0 THEN 1 ELSE 0

RECURSIVE GCD(_, _)
GCD(a, b) == IF b = 0 THEN a ELSE GCD(b, a % b)

Rat(n, d) ==
    LET g == GCD(IAbs(n), d) IN <<n \div g, d \div g>>

Zero == <<0, 1>>

One == <<1, 1>>

Half == <<1, 2>>

PosInf == <<1, 0>>

NegInf == <<-1, 0>>

NaN == <<0, 0>>

IsNaN(a) == a[2] = 0 /\ a[1] = 0

IsFinite(a) == a[2] # 0

RNeg(a) == <<-a[1], a[2]>>

RAdd(a, b) ==
    IF a[2] # 0 /\ b[2] # 0 THEN Rat(a[1] * b[2] + b[1] * a[2], a[2] * b[2])
    ELSE IF IsNaN(a) \/ IsNaN(b) THEN NaN
    ELSE IF a[2] = 0 /\ b[2] = 0 THEN (IF a[1] = b[1] THEN a ELSE NaN)
    ELSE IF a[2] = 0 THEN a ELSE b

RSub(a, b) == RAdd(a, RNeg(b))

RMul(a, b) ==
    IF a[2] # 0 /\ b[2] # 0 THEN Rat(a[1] * b[1], a[2] * b[2])
    ELSE IF IsNaN(a) \/ IsNaN(b) THEN NaN
    ELSE IF a[1] = 0 \/ b[1] = 0 THEN NaN
    ELSE <<ISgn(a[1]) * ISgn(b[1]), 0>>

RDiv(a, b) ==
    IF IsNaN(a) \/ IsNaN(b) THEN NaN
    ELSE IF b[2] = 0 THEN (IF a[2] = 0 THEN NaN ELSE Zero)
    ELSE IF b[1] = 0 THEN (IF a[1] = 0 THEN NaN ELSE <<ISgn(a[1]), 0>>)
    ELSE IF a[2] = 0 THEN <<a[1] * ISgn(b[1]), 0>>
    ELSE Rat(a[1] * b[2] * ISgn(b[1]), a[2] * IAbs(b[1]))

RLt(a, b) ==
    IF IsNaN(a) \/ IsNaN(b) THEN FALSE
    ELSE IF a[2] = 0 /\ b[2] = 0 THEN a[1] < b[1]
    ELSE a[1] * b[2] < b[1] * a[2]

RGt(a, b) == RLt(b, a)

RLe(a, b) == ~IsNaN(a) /\ ~IsNaN(b) /\ ~RLt(b, a)

RGe(a, b) == RLe(b, a)

fabs(a) == <<IAbs(a[1]), a[2]>>

RInt(n) == <<n, 1>>

(***************************************************************************)
(* utils.h / utils.cpp                                                     *)
(***************************************************************************)
EPS == <<1, 1000000>>

MAXVAL == One

floatEQ(A, B, eps) == RLe(fabs(RSub(A, B)), eps)

isZero(a) == floatEQ(a, Zero, EPS)

isPositive(a) == RGt(a, RNeg(EPS))

isNegative(a) == RLt(a, EPS)

\* rectify: |v|, min(|v|, MAXVAL) and the sign record of every entry.
rectify(rawVec) ==
    [values   |-> [i \in 1..Len(rawVec) |-> fabs(rawVec[i])],
     clamped  |-> [i \in 1..Len(rawVec) |->
                     IF RGt(fabs(rawVec[i]), MAXVAL) THEN MAXVAL ELSE fabs(rawVec[i])],
     inverses |-> [i \in 1..Len(rawVec) |-> RLt(rawVec[i], Zero)]]

\* pow(x, 0.5) for x >= 0, to three decimal places.
RECURSIVE ISqrt(_, _, _)
ISqrt(N, lo, hi) ==
    IF lo >= hi THEN lo
    ELSE LET mid == (lo + hi + 1) \div 2
         IN IF mid * mid <= N THEN ISqrt(N, mid, hi) ELSE ISqrt(N, lo, mid - 1)

RSqrt(x) == Rat(ISqrt((x[1] * 1000000) \div x[2], 0, 46340), 1000)

\* doSoftMin after the swap: X >= Y.
SoftMinOrdered(X, Y) ==
    LET h == <<1, 40>>
        d == RMul(RInt(2), RSub(RSqrt(RAdd(One, h)), RSqrt(h)))
        z == RSub(RAdd(RSqrt(RAdd(RMul(X, X), h)), RSqrt(RAdd(RMul(Y, Y), h))),
                  RSqrt(RAdd(RMul(RSub(X, Y), RSub(X, Y)), h)))
    IN RDiv(RSub(z, RSqrt(h)), d)

doSoftMin(X0, Y0) ==
    IF isZero(X0) \/ isZero(Y0) THEN Zero
    ELSE SoftMinOrdered(IF RLt(X0, Y0) THEN Y0 ELSE X0, IF RLt(X0, Y0) THEN X0 ELSE Y0)

(***************************************************************************)
(* progression.cpp.  A progression is [pairs, interp]; a pair is           *)
(* [shape, time] where shape is the position (from 1) of the Shape in the  *)
(* container's shapes vector, the target of the Shape* the code stores.    *)
(***************************************************************************)
\* std::sort by the pair's parameter (insertion into the sorted prefix).
RECURSIVE InsertByTime(_, _)
InsertByTime(seq, x) ==
    IF seq = <<>> THEN <<x>>
    ELSE IF RLt(x.time, seq[Len(seq)].time) THEN
            Append(InsertByTime(SubSeq(seq, 1, Len(seq) - 1), x), seq[Len(seq)])
    ELSE Append(seq, x)

RECURSIVE SortByTime(_)
SortByTime(seq) ==
    IF seq = <<>> THEN <<>>
    ELSE InsertByTime(SortByTime(SubSeq(seq, 1, Len(seq) - 1)), seq[Len(seq)])

Progression(pairs, interp) ==
    [pairs |-> SortByTime(pairs), interp |-> interp]

\* getInterval: the interval index (from 0) and the outside flag.
RECURSIVE IntervalScan(_, _, _)
IntervalScan(tVal, times, i) ==
    IF i >= Len(times) - 2 THEN 0
    ELSE IF RLe(times[i + 1], tVal) /\ RLt(tVal, times[i + 2]) THEN i
    ELSE IntervalScan(tVal, times, i + 1)

getInterval(tVal, times) ==
    IF Len(times) <= 1 THEN [idx |-> 0, outside |-> TRUE]
    ELSE [outside |-> RLt(tVal, times[1]) \/ RGt(tVal, times[Len(times)]),
          idx |-> IF RGe(tVal, times[Len(times) - 1]) THEN Len(times) - 2
                  ELSE IF RLt(tVal, times[1]) THEN 0
                  ELSE IntervalScan(tVal, times, 0)]

Times(pairs) == [i \in 1..Len(pairs) |-> pairs[i].time]

\* getRawLinearOutput with the two weights exchanged.
getRawLinearOutputSwapped(pairs, tVal, mul) ==
    IF Len(pairs) < 2 THEN <<>>
    ELSE LET times == Times(pairs)
             idx == getInterval(tVal, times).idx
             u == RDiv(RSub(tVal, times[idx + 1]), RSub(times[idx + 2], times[idx + 1]))
         IN << <<pairs[idx + 1].shape, RMul(mul, u)>>,
               <<pairs[idx + 2].shape, RMul(mul, RSub(One, u))>> >>

getRawLinearOutput(pairs, tVal, mul) ==
    IF Len(pairs) < 2 THEN <<>>
    ELSE LET times == Times(pairs)
             idx == getInterval(tVal, times).idx
             u == RDiv(RSub(tVal, times[idx + 1]), RSub(times[idx + 2], times[idx + 1]))
         IN << <<pairs[idx + 1].shape, RMul(mul, RSub(One, u))>>,
               <<pairs[idx + 2].shape, RMul(mul, u)>> >>

\* The pairs pushed by getRawSplineOutput inside the range of the spline.
SplineInside(pairs, mul, interval, v0, v1, v2, v3) ==
    IF interval = 0 THEN
        << <<pairs[1].shape, RMul(mul, RAdd(RAdd(v1, v0), v0))>>,
           <<pairs[2].shape, RMul(mul, RSub(v2, v0))>>,
           <<pairs[3].shape, RMul(mul, v3)>> >>
    ELSE IF interval = Len(pairs) - 2 THEN
        << <<pairs[Len(pairs) - 2].shape, RMul(mul, v0)>>,
           <<pairs[Len(pairs) - 1].shape, RMul(mul, RSub(v1, v3))>>,
           <<pairs[Len(pairs)].shape, RMul(mul, RAdd(RAdd(v2, v3), v3))>> >>
    ELSE
        << <<pairs[interval].shape, RMul(mul, v0)>>,
           <<pairs[interval + 1].shape, RMul(mul, v1)>>,
           <<pairs[interval + 2].shape, RMul(mul, v2)>>,
           <<pairs[interval + 3].shape, RMul(mul, v3)>> >>

\* The Catmull-Rom basis multipliers of x, x*x and x*x*x.
SplineBasis(pairs, mul, interval, x, x2, x3) ==
    SplineInside(pairs, mul, interval,
        RAdd(RAdd(RMul(<<-1, 2>>, x3), x2), RMul(<<-1, 2>>, x)),
        RAdd(RAdd(RMul(<<3, 2>>, x3), RMul(<<-5, 2>>, x2)), One),
        RAdd(RAdd(RMul(<<-3, 2>>, x3), RMul(RInt(2), x2)), RMul(Half, x)),
        RAdd(RMul(Half, x3), RMul(<<-1, 2>>, x2)))

\* getRawSplineOutput from the percentage x of the interval on.
SplineAt(pairs, mul, interval, outside, x) ==
    IF outside THEN
        IF interval = 0 THEN
            << <<pairs[1].shape, RMul(mul, RSub(One, x))>>,
               <<pairs[2].shape, RMul(mul, x)>> >>
        ELSE
            << <<pairs[Len(pairs)].shape, RMul(mul, x)>>,
               <<pairs[Len(pairs) - 1].shape, RMul(mul, RSub(One, x))>> >>
    ELSE SplineBasis(pairs, mul, interval, x, RMul(x, x), RMul(RMul(x, x), x))

\* getRawSplineOutput from the interval found by getInterval on.
SplineInterval(pairs, tVal, mul, iv) ==
    SplineAt(pairs, mul, iv.idx, iv.outside,
             RDiv(RSub(tVal, pairs[iv.idx + 1].time),
                  RSub(pairs[iv.idx + 2].time, pairs[iv.idx + 1].time)))

getRawSplineOutput(pairs, tVal, mul) ==
    IF Len(pairs) <= 2
       \/ (RLt(tVal, pairs[1].time) /\ RGt(tVal, pairs[Len(pairs)].time))
    THEN getRawLinearOutput(pairs, tVal, mul)
    ELSE SplineInterval(pairs, tVal, mul, getInterval(tVal, Times(pairs)))

\* getSplitSplineOutput interpolating over every pair.
SidedPairsAll(pairs, tVal) == pairs

\* The pairs getSplitSplineOutput interpolates over: those on tVal's side of 0.
SidedPairs(pairs, tVal) ==
    LET gt == RGe(tVal, Zero)
        keep(p) == (gt /\ RGe(p.time, Zero)) \/ (~gt /\ RLe(p.time, Zero))
    IN SelectSeq(pairs, keep)

getSplitSplineOutput(prog, tVal, mul) ==
    getRawSplineOutput(SidedPairs(prog.pairs, tVal), tVal, mul)

getOutput(prog, tVal, mul) ==
    IF prog.interp = "spline" THEN getRawSplineOutput(prog.pairs, tVal, mul)
    ELSE IF prog.interp = "splitSpline" THEN getSplitSplineOutput(prog, tVal, mul)
    ELSE getRawLinearOutput(prog.pairs, tVal, mul)

(***************************************************************************)
(* shapeController.h, slider.h, combo.cpp, traversal.cpp.                  *)
(* A controller is a record with the ShapeBase/ShapeController fields      *)
(* index, enabled, value, multiplier and prog (the position, from 1, of    *)
(* the Progression the stored Progression* points at).  A ComboPair is     *)
(* [slider, val] with slider the position of the Slider in sliders.        *)
(***************************************************************************)
SolveTypes == {"min", "allMul", "extMul", "mulAvgExt", "mulAvgAll", "None"}

ShapeController(prog, index) ==
    [index |-> index, enabled |-> TRUE, value |-> Zero, multiplier |-> One, prog |-> prog]

clearValue(c) == [c EXCEPT !.value = Zero, !.multiplier = One]

Slider(prog, index) == ShapeController(prog, index)

\* Slider::storeValue; values is the raw input as the slider reads it.
SliderStoreValue(sl, values) ==
    IF ~sl.enabled THEN sl ELSE [sl EXCEPT !.value = values[sl.index + 1]]

RECURSIVE RMinSeq(_, _)
RMinSeq(seq, acc) ==
    IF seq = <<>> THEN acc
    ELSE RMinSeq(Tail(seq), IF RLt(Head(seq), acc) THEN Head(seq) ELSE acc)

RECURSIVE RMaxSeq(_, _)
RMaxSeq(seq, acc) ==
    IF seq = <<>> THEN acc
    ELSE RMaxSeq(Tail(seq), IF RGt(Head(seq), acc) THEN Head(seq) ELSE acc)

RECURSIVE RProdSeq(_)
RProdSeq(seq) == IF seq = <<>> THEN One ELSE RMul(RProdSeq(SubSeq(seq, 1, Len(seq) - 1)), seq[Len(seq)])

RECURSIVE RSumSeq(_)
RSumSeq(seq) == IF seq = <<>> THEN Zero ELSE RAdd(RSumSeq(SubSeq(seq, 1, Len(seq) - 1)), seq[Len(seq)])

\* The switch of solveState over the minimum, maximum, product and sum; min,
\* None and the default share one body.
SolveSwitch(mn, mx, allMul, allSum, n, solveType, exact) ==
    CASE solveType = "allMul" -> allMul
      [] solveType = "extMul" -> RMul(mx, mn)
      [] solveType = "mulAvgExt" ->
             IF isZero(RAdd(mx, mn)) THEN Zero
             ELSE RDiv(RMul(RInt(2), RMul(mx, mn)), RAdd(mx, mn))
      [] solveType = "mulAvgAll" ->
             IF isZero(allSum) THEN Zero
             ELSE RDiv(RMul(RInt(n), allMul), allSum)
      [] OTHER -> IF exact THEN mn ELSE doSoftMin(mx, mn)

\* The values of solveState's loop: negated when not positive, then clamped
\* to MAXVAL.
SolveFlip(val) == IF ~isPositive(val) THEN RNeg(val) ELSE val

SolveClamp(vals) ==
    [i \in 1..Len(vals) |->
        IF RGt(SolveFlip(vals[i]), MAXVAL) THEN MAXVAL ELSE SolveFlip(vals[i])]

SolveReduce(cl, solveType, exact) ==
    SolveSwitch(RMinSeq(cl, PosInf), RMaxSeq(cl, NegInf), RProdSeq(cl), RSumSeq(cl),
                Len(cl), solveType, exact)

\* solveState(vals, tars, solveType, exact, value): [ok, value]; value is
\* written only when ok.
solveState(vals, tars, solveType, exact) ==
    IF \E i \in 1..Len(vals) : (~isPositive(vals[i])) # (~isPositive(tars[i]))
    THEN [ok |-> FALSE, value |-> Zero]
    ELSE [ok |-> TRUE, value |-> SolveReduce(SolveClamp(vals), solveType, exact)]

\* solveState(stateList, ...): reads the value of every slider of the state.
solveStateList(stateList, sliders, solveType, exact) ==
    solveState([i \in 1..Len(stateList) |-> sliders[stateList[i].slider].value],
               [i \in 1..Len(stateList) |-> stateList[i].val],
               solveType, exact)

\* std::sort of a stateList by the index of the slider each pair points at.
RECURSIVE InsertBySlider(_, _, _)
InsertBySlider(seq, x, sliders) ==
    IF seq = <<>> THEN <<x>>
    ELSE IF sliders[x.slider].index < sliders[seq[Len(seq)].slider].index THEN
            Append(InsertBySlider(SubSeq(seq, 1, Len(seq) - 1), x, sliders), seq[Len(seq)])
    ELSE Append(seq, x)

RECURSIVE SortBySlider(_, _)
SortBySlider(seq, sliders) ==
    IF seq = <<>> THEN <<>>
    ELSE InsertBySlider(SortBySlider(SubSeq(seq, 1, Len(seq) - 1), sliders),
                        seq[Len(seq)], sliders)

Combo(prog, index, stateList, isFloater, solveType, sliders) ==
    LET sorted == SortBySlider(stateList, sliders)
        rect == rectify([i \in 1..Len(sorted) |-> sorted[i].val])
    IN [index |-> index, enabled |-> TRUE, value |-> Zero, multiplier |-> One,
        prog |-> prog, stateList |-> sorted, isFloater |-> isFloater,
        solveType |-> solveType, exact |-> TRUE,
        rectified |-> rect.values, clamped |-> rect.clamped, inverted |-> rect.inverses]

\* Floater(name, prog, index, stateList, isFloater): a Combo.
Floater(prog, index, stateList, isFloater, sliders) ==
    Combo(prog, index, stateList, isFloater, "None", sliders)

\* Combo::storeValue after solveState returned r: value is left as it was
\* when r is not ok.
ComboAssign(c, r) == IF r.ok THEN [c EXCEPT !.value = r.value] ELSE c

\* Combo::storeValue without the isFloater test.
ComboStoreValueFloaterToo(c, sliders) ==
    IF ~c.enabled THEN c
    ELSE ComboAssign(c, solveStateList(c.stateList, sliders, c.solveType, c.exact))

ComboStoreValue(c, sliders) ==
    IF ~c.enabled THEN c
    ELSE IF c.isFloater THEN c
    ELSE ComboAssign(c, solveStateList(c.stateList, sliders, c.solveType, c.exact))

\* Traversal(name, prog, index, progressCtrl, multiplierCtrl, valueFlip,
\* multiplierFlip).  A control is [isSlider, pos]: a slider or a combo.  The
\* constructor does not initialise solveType: ust is the value the member
\* happens to hold.
TraversalLegacy(prog, index, pc, mc, valueFlip, multiplierFlip, sliders, combos, ust) ==
    [index |-> index, enabled |-> TRUE, value |-> Zero, multiplier |-> One, prog |-> prog,
     multState |->
        IF mc.isSlider
        THEN << [slider |-> mc.pos, val |-> IF multiplierFlip THEN RInt(-1) ELSE One] >>
        ELSE combos[mc.pos].stateList,
     progStartState |->
        IF pc.isSlider THEN << [slider |-> pc.pos, val |-> Zero] >>
        ELSE [i \in 1..Len(combos[pc.pos].stateList) |->
                [slider |-> combos[pc.pos].stateList[i].slider, val |-> Zero]],
     progDeltaState |->
        IF pc.isSlider
        THEN << [slider |-> pc.pos, val |-> IF valueFlip THEN RInt(-1) ELSE One] >>
        ELSE combos[pc.pos].stateList,
     solveType |-> ust, exact |-> TRUE]

\* The last value a pair list gives a slider (operator[] assignment in order).
RECURSIVE LastVal(_, _)
LastVal(pairs, sl) ==
    IF pairs[Len(pairs)].slider = sl THEN pairs[Len(pairs)].val
    ELSE LastVal(SubSeq(pairs, 1, Len(pairs) - 1), sl)

HasSlider(pairs, sl) == \E i \in 1..Len(pairs) : pairs[i].slider = sl

\* The sliders of both endpoint states in an iteration order of allSliders
\* (an unordered_set: the order is the implementation's; ascending here).
RECURSIVE SetToSortedSeq(_)
SetToSortedSeq(S) ==
    IF S = {} THEN <<>>
    ELSE LET m == CHOOSE x \in S : \A y \in S : x <= y
         IN <<m>> \o SetToSortedSeq(S \ {m})

\* Traversal(name, prog, index, startPairs, endPairs, solveType); the
\* parameter solveType is not stored: ust is what the member holds.
RECURSIVE TraversalSplit(_, _, _, _)
TraversalSplit(all, startPairs, endPairs, acc) ==
    IF all = <<>> THEN acc
    ELSE LET sli == Head(all)
             inS == HasSlider(startPairs, sli)
             inE == HasSlider(endPairs, sli)
             next ==
               IF ~inS THEN
                 [acc EXCEPT
                    !.progStartState = Append(@, [slider |-> sli, val |-> Zero]),
                    !.progDeltaState = Append(@, [slider |-> sli, val |-> LastVal(endPairs, sli)])]
               ELSE IF ~inE THEN
                 [acc EXCEPT
                    !.progStartState = Append(@, [slider |-> sli, val |-> LastVal(startPairs, sli)]),
                    !.progDeltaState = Append(@, [slider |-> sli, val |-> RNeg(LastVal(startPairs, sli))])]
               ELSE IF LastVal(startPairs, sli) = LastVal(endPairs, sli) THEN
                 [acc EXCEPT
                    !.multState = Append(@, [slider |-> sli, val |-> LastVal(startPairs, sli)])]
               ELSE
                 [acc EXCEPT
                    !.progStartState = Append(@, [slider |-> sli, val |-> LastVal(startPairs, sli)]),
                    !.progDeltaState = Append(@, [slider |-> sli,
                        val |-> RSub(LastVal(endPairs, sli), LastVal(startPairs, sli))])]
         IN TraversalSplit(Tail(all), startPairs, endPairs, next)

TraversalEndFirst(prog, index, startPairs, endPairs, solveType, ust) ==
    LET all == SetToSortedSeq({startPairs[i].slider : i \in 1..Len(startPairs)}
                              \cup {endPairs[i].slider : i \in 1..Len(endPairs)})
        st == TraversalSplit(all, endPairs, startPairs,
                 [progStartState |-> <<>>, progDeltaState |-> <<>>, multState |-> <<>>])
    IN [index |-> index, enabled |-> TRUE, value |-> Zero, multiplier |-> One, prog |-> prog,
        multState |-> st.multState, progStartState |-> st.progStartState,
        progDeltaState |-> st.progDeltaState, solveType |-> ust, exact |-> TRUE]

Traversal(prog, index, startPairs, endPairs, solveType, ust) ==
    LET all == SetToSortedSeq({startPairs[i].slider : i \in 1..Len(startPairs)}
                              \cup {endPairs[i].slider : i \in 1..Len(endPairs)})
        st == TraversalSplit(all, startPairs, endPairs,
                 [progStartState |-> <<>>, progDeltaState |-> <<>>, multState |-> <<>>])
    IN [index |-> index, enabled |-> TRUE, value |-> Zero, multiplier |-> One, prog |-> prog,
        multState |-> st.multState, progStartState |-> st.progStartState,
        progDeltaState |-> st.progDeltaState, solveType |-> ust, exact |-> TRUE]

\* The two assignments that end Traversal::storeValue; m and v are what the
\* two solveState calls returned.
TraversalAssign(t, m, v) ==
    [t EXCEPT !.value = IF v.ok THEN v.value ELSE Zero,
              !.multiplier = IF m.ok THEN m.value ELSE Zero]

TraversalStoreValue(t, sliders) ==
    IF ~t.enabled THEN t
    ELSE TraversalAssign(t,
            solveStateList(t.multState, sliders, t.solveType, t.exact),
            solveState([i \in 1..Len(t.progStartState) |->
                           RSub(sliders[t.progStartState[i].slider].value,
                                t.progStartState[i].val)],
                       [i \in 1..Len(t.progStartState) |-> t.progDeltaState[i].val],
                       t.solveType, t.exact))

(***************************************************************************)
(* trispace.cpp.  A TriSpace is [floaters, userPoints, overrideSimplices,  *)
(* simplexMap]; floaters holds the positions (from 1) in the container's   *)
(* floaters vector that the stored Floater* point at.                      *)
(***************************************************************************)
RemoveAt(seq, i) == SubSeq(seq, 1, i - 1) \o SubSeq(seq, i + 1, Len(seq))

ZeroVec(n) == [i \in 1..n |-> Zero]

VecSub(a, b) == [i \in 1..Len(a) |-> RSub(a[i], b[i])]

\* Determinant of the square matrix given by its columns.
RECURSIVE Det(_)
Det(cols) ==
    IF Len(cols) = 1 THEN cols[1][1]
    ELSE LET n == Len(cols)
             minor(r) == [c \in 1..(n - 1) |-> RemoveAt(cols[c + 1], r)]
             term(r) == RMul(IF r % 2 = 1 THEN cols[1][r] ELSE RNeg(cols[1][r]),
                             Det(minor(r)))
         IN RSumSeq([r \in 1..n |-> term(r)])

\* M.colPivHouseholderQr().solve(b): the solution of M x = b.  For a
\* singular M the routine returns no meaningful solution: NaN entries.
QrSolve(cols, b) ==
    LET n == Len(cols)
        d == Det(cols)
    IN IF d = Zero THEN [i \in 1..n |-> NaN]
       ELSE [i \in 1..n |->
               RDiv(Det([c \in 1..n |-> IF c = i THEN b ELSE cols[c]]), d)]

barycentric(simplex, p) ==
    LET last == simplex[Len(simplex)]
        lastVec == VecSub(p, last)
        M == [i \in 1..(Len(simplex) - 1) |-> VecSub(simplex[i], last)]
        x == QrSolve(M, lastVec)
    IN Append(x, RSub(One, RSumSeq(x)))

AllPositive(b) == \A i \in 1..Len(b) : isPositive(b[i])

RECURSIVE RMaxAbs(_, _)
RMaxAbs(point, acc) ==
    IF point = <<>> THEN acc
    ELSE RMaxAbs(Tail(point), IF RGt(fabs(Head(point)), acc) THEN fabs(Head(point)) ELSE acc)

RECURSIVE FlattenSeq(_)
FlattenSeq(ss) == IF ss = <<>> THEN <<>> ELSE Head(ss) \o FlattenSeq(Tail(ss))

\* TriSpace::rec: every orthoscheme encoding within eps of the point.
RECURSIVE rec(_, _, _, _)
rec(point, oVals, simp, eps) ==
    IF point = <<>> THEN <<simp>>
    ELSE LET maxabs == RMaxAbs(point, fabs(point[1]))
             isMx(i) == RLt(RSub(maxabs, fabs(point[i])), eps)
             mxs == SelectSeq([i \in 1..Len(point) |-> i], isMx)
             mvZero == isZero(maxabs)
             dirs(mx) == IF mvZero THEN <<-1, 1>>
                         ELSE IF isPositive(point[mx]) THEN <<1>> ELSE <<-1>>
             branch(mx, direction) ==
                 rec(RemoveAt(point, mx), RemoveAt(oVals, mx),
                     Append(simp, (oVals[mx] + 1) * direction), eps)
             perMx(mx) == FlattenSeq([k \in 1..Len(dirs(mx)) |-> branch(mx, dirs(mx)[k])])
         IN FlattenSeq([k \in 1..Len(mxs) |-> perMx(mxs[k])])

AdjEps == <<1, 100>>

pointToAdjSimp(pt, eps) ==
    rec(pt, [i \in 1..Len(pt) |-> i - 1], <<0>>, eps)

\* std::sort of (signed axis, |coordinate|) pairs by the second member.
RECURSIVE InsertBySecond(_, _)
InsertBySecond(seq, x) ==
    IF seq = <<>> THEN <<x>>
    ELSE IF RLt(x[2], seq[Len(seq)][2]) THEN
            Append(InsertBySecond(SubSeq(seq, 1, Len(seq) - 1), x), seq[Len(seq)])
    ELSE Append(seq, x)

RECURSIVE SortBySecond(_)
SortBySecond(seq) ==
    IF seq = <<>> THEN <<>>
    ELSE InsertBySecond(SortBySecond(SubSeq(seq, 1, Len(seq) - 1)), seq[Len(seq)])

\* pointToSimp without the reversal of the sorted axes.
pointToSimpAscending(pt) ==
    LET abspt == SortBySecond([i \in 1..Len(pt) |->
                    LET n == IF ~isPositive(pt[i]) THEN -1 ELSE 1
                    IN <<i * n, RMul(pt[i], RInt(n))>>])
    IN <<0>> \o [k \in 1..Len(abspt) |-> abspt[k][1]]

pointToSimp(pt) ==
    LET abspt == SortBySecond([i \in 1..Len(pt) |->
                    LET n == IF ~isPositive(pt[i]) THEN -1 ELSE 1
                    IN <<i * n, RMul(pt[i], RInt(n))>>])
        m == Len(abspt)
    IN <<0>> \o [k \in 1..m |-> abspt[m + 1 - k][1]]

\* The running corner vector after the first i entries of an encoding,
\* moved along the axes named by enc (entries at or above the encoding's
\* length name user points and, in simplexToCorners, move nothing).
RECURSIVE CurrVec(_, _, _)
CurrVec(enc, i, skipUser) ==
    IF i = 0 THEN ZeroVec(Len(enc) - 1)
    ELSE LET prev == CurrVec(enc, i - 1, skipUser)
             s == enc[i]
             idx == IAbs(s)
         IN IF s = 0 \/ (skipUser /\ idx >= Len(enc)) THEN prev
            ELSE [prev EXCEPT ![idx] = IF s > 0 THEN One ELSE RInt(-1)]

simplexToCorners(simplex, userPoints) ==
    [i \in 1..Len(simplex) |->
        LET idx == IAbs(simplex[i])
        IN IF simplex[i] # 0 /\ idx >= Len(simplex)
           THEN userPoints[idx - Len(simplex) + 1]
           ELSE CurrVec(simplex, i, TRUE)]

\* userSimplexToCorners: corners of a user simplex and, per corner, the
\* index (from 0) of the floater it stands for, or -1.
userSimplexToCorners(simplex, original, userPoints) ==
    [out |-> [i \in 1..Len(simplex) |->
                LET idx == IAbs(simplex[i])
                IN IF simplex[i] # 0 /\ idx >= Len(simplex)
                   THEN userPoints[idx - Len(simplex) + 1]
                   ELSE CurrVec(original, i, FALSE)],
     floaterCorners |-> [i \in 1..Len(simplex) |->
                LET idx == IAbs(simplex[i])
                IN IF simplex[i] # 0 /\ idx >= Len(simplex)
                   THEN idx - Len(simplex) ELSE -1]]

\* One pass of splitSimps: split every simplex of out that contains p.
SplitByPoint(out, p) ==
    FlattenSeq([j \in 1..Len(out) |->
        LET bary == barycentric(out[j], p)
            nonZero(k) == ~isZero(bary[k])
        IN IF AllPositive(bary)
           THEN LET ks == SelectSeq([k \in 1..Len(bary) |-> k], nonZero)
                IN [m \in 1..Len(ks) |-> [out[j] EXCEPT ![ks[m]] = p]]
           ELSE <<out[j]>>])

RECURSIVE SplitAll(_, _)
SplitAll(out, pts) ==
    IF pts = <<>> THEN out ELSE SplitAll(SplitByPoint(out, Head(pts)), Tail(pts))

splitSimps(pts, simps, userPoints) ==
    SplitAll([i \in 1..Len(simps) |-> simplexToCorners(simps[i], userPoints)], pts)

SeqToSet(seq) == {seq[i] : i \in 1..Len(seq)}

\* std::find: the first position (from 0) of x in seq, or Len(seq).
FindFirst(seq, x) ==
    IF \E i \in 1..Len(seq) : seq[i] = x
    THEN (CHOOSE i \in 1..Len(seq) : seq[i] = x /\ \A j \in 1..(i - 1) : seq[j] # x) - 1
    ELSE Len(seq)

\* TriSpace::TriSpace(floaters) and triangulate().  fl is the container's
\* floaters vector, members the positions of this space's floaters.
triangulate(members, fl) ==
    LET userPoints == [k \in 1..Len(members) |->
                         [i \in 1..Len(fl[members[k]].stateList) |->
                             fl[members[k]].stateList[i].val]]
        raw == [k \in 1..Len(members) |-> pointToAdjSimp(userPoints[k], AdjEps)]
        keys == UNION {SeqToSet(raw[k]) : k \in 1..Len(members)}
        ptsOf(key) ==
            LET has(k) == key \in SeqToSet(raw[k])
                ks == SelectSeq([k \in 1..Len(members) |-> k], has)
            IN [m \in 1..Len(ks) |-> userPoints[ks[m]]]
        encode(key, userSimplex) ==
            [c \in 1..Len(userSimplex) |->
                LET f == FindFirst(userPoints, userSimplex[c])
                IN IF f = Len(userPoints) THEN key[c] ELSE Len(key) + f]
        split(key) == splitSimps(ptsOf(key), <<key>>, userPoints)
    IN [floaters |-> members,
        userPoints |-> userPoints,
        overrideSimplices |-> keys,
        simplexMap |-> [key \in keys |->
                          LET sk == split(key)
                          IN [m \in 1..Len(sk) |-> encode(key, sk[m])]]]

stateEq(lhs, rhs) == \A i \in 1..Len(lhs) : lhs[i].slider = rhs[i].slider

\* The grouping loop of buildSpaces over one dimension bucket.
RECURSIVE GroupBuckets(_, _)
GroupBuckets(dim, fl) ==
    IF dim = <<>> THEN <<>>
    ELSE LET same(j) == stateEq(fl[Head(dim)].stateList, fl[j].stateList)
             other(j) == ~same(j)
             bucket == <<Head(dim)>> \o SelectSeq(Tail(dim), same)
         IN <<bucket>> \o GroupBuckets(SelectSeq(Tail(dim), other), fl)

RECURSIVE IMaxSeq(_, _)
IMaxSeq(seq, acc) ==
    IF seq = <<>> THEN acc ELSE IMaxSeq(Tail(seq), IF Head(seq) > acc THEN Head(seq) ELSE acc)

buildSpaces(fl) ==
    LET maxDim == IMaxSeq([k \in 1..Len(fl) |-> Len(fl[k].stateList)], 0)
        ofDim(d) == LET is(k) == Len(fl[k].stateList) = d
                    IN SelectSeq([k \in 1..Len(fl) |-> k], is)
        buckets == FlattenSeq([d \in 1..(maxDim + 1) |-> GroupBuckets(ofDim(d - 1), fl)])
    IN [k \in 1..Len(buckets) |-> triangulate(buckets[k], fl)]

\* The writes of the accepted sub-simplex: floaters[fcIdx]->value = b[i].
RECURSIVE WriteCorners(_, _, _, _, _)
WriteCorners(fl, members, b, floaterCorners, i) ==
    IF i > Len(b) THEN fl
    ELSE WriteCorners(
            IF floaterCorners[i] # -1
            THEN [fl EXCEPT ![members[floaterCorners[i] + 1]].value = b[i]]
            ELSE fl,
            members, b, floaterCorners, i + 1)

RECURSIVE FirstContaining(_, _, _, _, _, _)
FirstContaining(fl, sp, simps, majorSimp, vec, k) ==
    IF k > Len(simps) THEN fl
    ELSE LET uc == userSimplexToCorners(simps[k], majorSimp, sp.userPoints)
             b == barycentric(uc.out, vec)
         IN IF AllPositive(b) THEN WriteCorners(fl, sp.floaters, b, uc.floaterCorners, 1)
            ELSE FirstContaining(fl, sp, simps, majorSimp, vec, k + 1)

\* TriSpace::storeValue with the test of the inversion flags negated.
TriSpaceStoreValueOtherOrthant(sp, fl, sliders, clamped, inverses) ==
    LET sl == fl[sp.floaters[1]].stateList
        idx(i) == sliders[sl[i].slider].index + 1
        subInverse == [i \in 1..Len(sl) |-> inverses[idx(i)]]
        vec == [i \in 1..Len(sl) |-> clamped[idx(i)]]
    IN IF \E i \in 1..Len(sl) : isZero(vec[i]) THEN fl
       ELSE IF fl[sp.floaters[1]].inverted = subInverse THEN fl
       ELSE LET majorSimp == pointToSimp(vec)
            IN IF majorSimp \notin DOMAIN sp.simplexMap THEN fl
               ELSE FirstContaining(fl, sp, sp.simplexMap[majorSimp], majorSimp, vec, 1)

\* TriSpace::storeValue: the floaters vector after the call.  clamped and
\* inverses are the rectified input as this call reads it.
TriSpaceStoreValue(sp, fl, sliders, clamped, inverses) ==
    LET sl == fl[sp.floaters[1]].stateList
        idx(i) == sliders[sl[i].slider].index + 1
        subInverse == [i \in 1..Len(sl) |-> inverses[idx(i)]]
        vec == [i \in 1..Len(sl) |-> clamped[idx(i)]]
    IN IF \E i \in 1..Len(sl) : isZero(vec[i]) THEN fl
       ELSE IF fl[sp.floaters[1]].inverted # subInverse THEN fl
       ELSE LET majorSimp == pointToSimp(vec)
            IN IF majorSimp \notin DOMAIN sp.simplexMap THEN fl
               ELSE FirstContaining(fl, sp, sp.simplexMap[majorSimp], majorSimp, vec, 1)

(***************************************************************************)
(* The definition document.  A JSON value is a record [t, v]: t is the     *)
(* rapidjson type ("str", "int", "dbl", "bool", "arr", "obj") and v the    *)
(* value (a sequence for an array, a record for an object).  A text that   *)
(* is not JSON at all is [t |-> "malformed", v |-> <message>].            *)
(***************************************************************************)
JStr(x) == [t |-> "str", v |-> x]

JInt(x) == [t |-> "int", v |-> x]

JDbl(x) == [t |-> "dbl", v |-> x]

JBool(x) == [t |-> "bool", v |-> x]

JArr(x) == [t |-> "arr", v |-> x]

JObj(x) == [t |-> "obj", v |-> x]

IsString(j) == j.t = "str"

IsInt(j) == j.t = "int"

IsUint(j) == j.t = "int" /\ j.v >= 0

IsDouble(j) == j.t = "dbl"

IsNumber(j) == j.t \in {"int", "dbl"}

IsBool(j) == j.t = "bool"

IsArray(j) == j.t = "arr"

IsObject(j) == j.t = "obj"

HasMember(j, name) == name \in DOMAIN j.v

GetDouble(j) == IF j.t = "int" THEN RInt(j.v) ELSE j.v

\* CHECK_JSON_STRING / _INT / _ARRAY / _BOOL of utils.h.
CheckJson(val, name, type) == HasMember(val, name) /\ val.v[name].t = type

\* (size_t)idx >= size, for the int idx read from the document.
OutOfRange(idx, size) == idx < 0 \/ idx >= size

(***************************************************************************)
(* simplex.h: the container.  mayDangle is not a field of the class: it    *)
(* records that a vector was appended to while pointers into it were held, *)
(* so that those pointers may refer to storage the vector has left.        *)
(***************************************************************************)
EmptySimplex ==
    [shapes |-> <<>>, progs |-> <<>>, sliders |-> <<>>, combos |-> <<>>,
     floaters |-> <<>>, spaces |-> <<>>, traversals |-> <<>>,
     built |-> FALSE, loaded |-> FALSE, hasParseError |-> FALSE,
     parseError |-> "", exactSolve |-> TRUE, mayDangle |-> FALSE]

HoldsShapePtr(s) == \E i \in 1..Len(s.progs) : s.progs[i].pairs # <<>>

HoldsProgPtr(s) ==
    s.sliders # <<>> \/ s.combos # <<>> \/ s.floaters # <<>> \/ s.traversals # <<>>

HoldsSliderPtr(s) ==
    \/ \E i \in 1..Len(s.combos) : s.combos[i].stateList # <<>>
    \/ \E i \in 1..Len(s.floaters) : s.floaters[i].stateList # <<>>
    \/ \E i \in 1..Len(s.traversals) :
          s.traversals[i].multState # <<>> \/ s.traversals[i].progStartState # <<>>

HoldsFloaterPtr(s) == s.spaces # <<>>

Fail(s) == [ok |-> FALSE, s |-> s]

Ok(s) == [ok |-> TRUE, s |-> s]

ShapeParseJSONv1(val, index, s) ==
    IF ~IsString(val) THEN Fail(s)
    ELSE Ok([s EXCEPT !.shapes = Append(@, [index |-> index]),
                      !.mayDangle = @ \/ HoldsShapePtr(s)])

ShapeParseJSONv2(val, index, s) ==
    IF ~IsObject(val) THEN Fail(s)
    ELSE IF ~CheckJson(val, "name", "str") THEN Fail(s)
    ELSE Ok([s EXCEPT !.shapes = Append(@, [index |-> index]),
                      !.mayDangle = @ \/ HoldsShapePtr(s)])

ShapeParseJSONv3(val, index, s) == ShapeParseJSONv2(val, index, s)

PushProg(s, pairs, interp) ==
    [s EXCEPT !.progs = Append(@, Progression(pairs, interp)),
              !.mayDangle = @ \/ HoldsProgPtr(s)]

ProgressionParseJSONv1(val, index, s) ==
    IF ~IsArray(val) THEN Fail(s)
    ELSE LET jindices == val.v[2]
             jweights == val.v[3]
         IN IF ~IsArray(jweights) \/ ~IsArray(jindices) THEN Fail(s)
            ELSE IF \E j \in 1..Len(jindices.v) :
                      \/ ~IsInt(jindices.v[j])
                      \/ ~IsNumber(jweights.v[j])
                      \/ OutOfRange(jindices.v[j].v, Len(s.shapes))
            THEN Fail(s)
            ELSE IF ~IsString(val.v[1]) THEN Fail(s)
            ELSE IF Len(val.v) > 3 /\ ~IsString(val.v[4]) THEN Fail(s)
            ELSE Ok(PushProg(s,
                     [j \in 1..Len(jindices.v) |->
                        [shape |-> jindices.v[j].v + 1, time |-> GetDouble(jweights.v[j])]],
                     IF Len(val.v) > 3 /\ val.v[4].v = "linear" THEN "linear" ELSE "spline"))

ProgressionParseJSONv2(val, index, s) ==
    IF ~IsObject(val) THEN Fail(s)
    ELSE IF ~CheckJson(val, "name", "str") THEN Fail(s)
    ELSE IF ~CheckJson(val, "pairs", "arr") THEN Fail(s)
    ELSE IF ~CheckJson(val, "interp", "str") THEN Fail(s)
    ELSE LET pairsVal == val.v.pairs.v
             interpStr == val.v.interp.v
         IN IF \E j \in 1..Len(pairsVal) :
                  \/ ~IsArray(pairsVal[j])
                  \/ ~IsInt(pairsVal[j].v[1])
                  \/ ~IsDouble(pairsVal[j].v[2])
                  \/ OutOfRange(pairsVal[j].v[1].v, Len(s.shapes))
            THEN Fail(s)
            ELSE Ok(PushProg(s,
                     [j \in 1..Len(pairsVal) |->
                        [shape |-> pairsVal[j].v[1].v + 1, time |-> pairsVal[j].v[2].v]],
                     IF interpStr = "linear" THEN "linear"
                     ELSE IF interpStr = "splitspline" THEN "splitSpline"
                     ELSE "spline"))

ProgressionParseJSONv3(val, index, s) == ProgressionParseJSONv2(val, index, s)

\* ShapeController::getEnabled
getEnabled(val) ==
    IF HasMember(val, "enabled") /\ IsBool(val.v.enabled) THEN val.v.enabled.v ELSE TRUE

PushSlider(s, prog, index, enabled) ==
    [s EXCEPT !.sliders = Append(@, [Slider(prog, index) EXCEPT !.enabled = enabled]),
              !.mayDangle = @ \/ HoldsSliderPtr(s)]

SliderParseJSONv1(val, index, s) ==
    IF ~IsString(val.v[1]) THEN Fail(s)
    ELSE IF ~IsInt(val.v[2]) THEN Fail(s)
    ELSE IF OutOfRange(val.v[2].v, Len(s.progs)) THEN Fail(s)
    ELSE Ok(PushSlider(s, val.v[2].v + 1, index, TRUE))

SliderParseJSONv2(val, index, s) ==
    IF ~IsObject(val) THEN Fail(s)
    ELSE IF ~CheckJson(val, "name", "str") THEN Fail(s)
    ELSE IF ~CheckJson(val, "prog", "int") THEN Fail(s)
    ELSE IF OutOfRange(val.v.prog.v, Len(s.progs)) THEN Fail(s)
    ELSE Ok(PushSlider(s, val.v.prog.v + 1, index, getEnabled(val)))

SliderParseJSONv3(val, index, s) == SliderParseJSONv2(val, index, s)

getSolveType(val) ==
    IF ~HasMember(val, "solveType") THEN "None"
    ELSE IF ~IsString(val.v.solveType) THEN "None"
    ELSE IF val.v.solveType.v \in {"min", "allMul", "extMul", "mulAvgExt", "mulAvgAll"}
         THEN val.v.solveType.v
    ELSE "None"

IsFloaterValue(slval) == ~floatEQ(fabs(slval), One, EPS) /\ ~isZero(slval)

\* getSolvePairs: [ok, state, isFloater]; isFloater0 is the flag on entry.
getSolvePairs(val, s, isFloater0) ==
    LET arr == val.v
        bad(j) == \/ ~IsArray(arr[j])
                  \/ ~IsInt(arr[j].v[1])
                  \/ ~IsDouble(arr[j].v[2])
                  \/ OutOfRange(arr[j].v[1].v, Len(s.sliders))
    IN IF \E j \in 1..Len(arr) : bad(j)
       THEN [ok |-> FALSE, state |-> <<>>, isFloater |-> isFloater0]
       ELSE [ok |-> TRUE,
             state |-> [j \in 1..Len(arr) |->
                          [slider |-> arr[j].v[1].v + 1, val |-> arr[j].v[2].v]],
             isFloater |-> isFloater0 \/ \E j \in 1..Len(arr) : IsFloaterValue(arr[j].v[2].v)]

\* The two push_backs of Combo::parseJSONv1/v2: the Floater, when the state
\* makes one, and the Combo.
PushCombo(s, prog, index, state, isFloater, solveType, enabled) ==
    LET withFloater ==
          IF isFloater
          THEN [s EXCEPT
                  !.floaters = Append(@, [Floater(prog, index, state, isFloater, s.sliders)
                                            EXCEPT !.enabled = enabled]),
                  !.mayDangle = @ \/ HoldsFloaterPtr(s)]
          ELSE s
    IN [withFloater EXCEPT
          !.combos = Append(@, [Combo(prog, index, state, isFloater, solveType, s.sliders)
                                  EXCEPT !.enabled = enabled])]

ComboParseJSONv1(val, index, s) ==
    IF ~IsString(val.v[1]) THEN Fail(s)
    ELSE IF ~IsInt(val.v[2]) THEN Fail(s)
    ELSE LET jcstate == val.v[3].v
         IN IF \E j \in 1..Len(jcstate) :
                  \/ ~IsInt(jcstate[j].v[1])
                  \/ ~IsNumber(jcstate[j].v[2])
                  \/ OutOfRange(jcstate[j].v[1].v, Len(s.sliders))
            THEN Fail(s)
            ELSE IF OutOfRange(val.v[2].v, Len(s.progs)) THEN Fail(s)
            ELSE Ok(PushCombo(s, val.v[2].v + 1, index,
                     [j \in 1..Len(jcstate) |->
                        [slider |-> jcstate[j].v[1].v + 1, val |-> GetDouble(jcstate[j].v[2])]],
                     \E j \in 1..Len(jcstate) : IsFloaterValue(GetDouble(jcstate[j].v[2])),
                     "None", TRUE))

ComboParseJSONv2(val, index, s) ==
    IF ~IsObject(val) THEN Fail(s)
    ELSE IF ~CheckJson(val, "name", "str") THEN Fail(s)
    ELSE IF ~CheckJson(val, "prog", "int") THEN Fail(s)
    ELSE IF ~CheckJson(val, "pairs", "arr") THEN Fail(s)
    ELSE LET sp == getSolvePairs(val.v.pairs, s, FALSE)
         IN IF ~sp.ok THEN Fail(s)
            ELSE IF OutOfRange(val.v.prog.v, Len(s.progs)) THEN Fail(s)
            ELSE Ok(PushCombo(s, val.v.prog.v + 1, index, sp.state, sp.isFloater,
                              getSolveType(val), getEnabled(val)))

ComboParseJSONv3(val, index, s) == ComboParseJSONv2(val, index, s)

\* !pctype.empty() && pctype[0] == 'S', over the type names documents use.
IsSliderType(str) == str \in {"Slider", "S"}

\* ust: the value the uninitialised solveType member of the new Traversal holds.
TraversalParseJSONv2(val, index, s, ust) ==
    IF ~IsObject(val) THEN Fail(s)
    ELSE IF ~CheckJson(val, "name", "str") THEN Fail(s)
    ELSE IF ~CheckJson(val, "prog", "int") THEN Fail(s)
    ELSE IF ~CheckJson(val, "progressType", "str") THEN Fail(s)
    ELSE IF ~CheckJson(val, "progressControl", "int") THEN Fail(s)
    ELSE IF ~CheckJson(val, "progressFlip", "bool") THEN Fail(s)
    ELSE IF ~CheckJson(val, "multiplierType", "str") THEN Fail(s)
    ELSE IF ~CheckJson(val, "multiplierControl", "int") THEN Fail(s)
    ELSE IF ~CheckJson(val, "multiplierFlip", "bool") THEN Fail(s)
    ELSE LET pcS == IsSliderType(val.v.progressType.v)
             mcS == IsSliderType(val.v.multiplierType.v)
             pcidx == val.v.progressControl.v
             mcidx == val.v.multiplierControl.v
         IN IF OutOfRange(pcidx, IF pcS THEN Len(s.sliders) ELSE Len(s.combos)) THEN Fail(s)
            ELSE IF OutOfRange(mcidx, IF mcS THEN Len(s.sliders) ELSE Len(s.combos)) THEN Fail(s)
            ELSE IF OutOfRange(val.v.prog.v, Len(s.progs)) THEN Fail(s)
            ELSE Ok([s EXCEPT !.traversals = Append(@,
                       [TraversalLegacy(val.v.prog.v + 1, index,
                           [isSlider |-> pcS, pos |-> pcidx + 1],
                           [isSlider |-> mcS, pos |-> mcidx + 1],
                           val.v.progressFlip.v, val.v.multiplierFlip.v,
                           s.sliders, s.combos, ust)
                        EXCEPT !.enabled = getEnabled(val)])])

TraversalParseJSONv1(val, index, s, ust) == TraversalParseJSONv2(val, index, s, ust)

TraversalParseJSONv3(val, index, s, ust) ==
    IF ~IsObject(val) THEN Fail(s)
    ELSE IF ~CheckJson(val, "name", "str") THEN Fail(s)
    ELSE IF ~CheckJson(val, "prog", "int") THEN Fail(s)
    ELSE IF ~CheckJson(val, "start", "arr") THEN Fail(s)
    ELSE IF ~CheckJson(val, "end", "arr") THEN Fail(s)
    ELSE LET sp == getSolvePairs(val.v.start, s, FALSE)
             ep == getSolvePairs(val.v.end, s, sp.isFloater)
         IN IF ~sp.ok THEN Fail(s)
            ELSE IF ~ep.ok THEN Fail(s)
            ELSE IF OutOfRange(val.v.prog.v, Len(s.progs)) THEN Fail(s)
            ELSE Ok([s EXCEPT !.traversals = Append(@,
                       [Traversal(val.v.prog.v + 1, index, sp.state, ep.state,
                                  getSolveType(val), ust)
                        EXCEPT !.enabled = getEnabled(val)])])

ParseElement(kind, version, val, index, s, usts) ==
    IF kind = "shapes" THEN
        IF version = 3 THEN ShapeParseJSONv3(val, index, s)
        ELSE IF version = 2 THEN ShapeParseJSONv2(val, index, s)
        ELSE ShapeParseJSONv1(val, index, s)
    ELSE IF kind = "progressions" THEN
        IF version = 3 THEN ProgressionParseJSONv3(val, index, s)
        ELSE IF version = 2 THEN ProgressionParseJSONv2(val, index, s)
        ELSE ProgressionParseJSONv1(val, index, s)
    ELSE IF kind = "sliders" THEN
        IF version = 3 THEN SliderParseJSONv3(val, index, s)
        ELSE IF version = 2 THEN SliderParseJSONv2(val, index, s)
        ELSE SliderParseJSONv1(val, index, s)
    ELSE IF kind = "combos" THEN
        IF version = 3 THEN ComboParseJSONv3(val, index, s)
        ELSE IF version = 2 THEN ComboParseJSONv2(val, index, s)
        ELSE ComboParseJSONv1(val, index, s)
    ELSE
        IF version = 3 THEN TraversalParseJSONv3(val, index, s, usts[index + 1])
        ELSE IF version = 2 THEN TraversalParseJSONv2(val, index, s, usts[index + 1])
        ELSE TraversalParseJSONv1(val, index, s, usts[index + 1])

\* One of the for loops of parseJSONversion, from element i (0-based) on;
\* ParseNext is the loop after element i returned r.
RECURSIVE ParseLoop(_, _, _, _, _, _)
RECURSIVE ParseNext(_, _, _, _, _, _)
ParseNext(kind, version, arr, i, r, usts) ==
    IF ~r.ok THEN r ELSE ParseLoop(kind, version, arr, i + 1, r.s, usts)

ParseLoop(kind, version, arr, i, s, usts) ==
    IF i >= Len(arr) THEN Ok(s)
    ELSE ParseNext(kind, version, arr, i,
                   ParseElement(kind, version, arr[i + 1], i, s, usts), usts)

\* parseJSONversion after its last loop returned r.
ParseLoaded(r) ==
    IF ~r.ok THEN r ELSE Ok([r.s EXCEPT !.loaded = TRUE])

\* parseJSONversion from the traversals on; r is what the combos returned.
ParseTraversals(d, version, r, usts) ==
    IF ~r.ok THEN r
    ELSE IF HasMember(d, "traversals")
    THEN IF ~IsArray(d.v.traversals) THEN Fail(r.s)
         ELSE ParseLoaded(ParseLoop("traversals", version, d.v.traversals.v, 0, r.s, usts))
    ELSE ParseLoaded(r)

\* parseJSONversion from the combos on; r is what the sliders returned.
ParseCombos(d, version, r, usts) ==
    IF ~r.ok THEN r
    ELSE IF HasMember(d, "combos")
    THEN IF ~IsArray(d.v.combos) THEN Fail(r.s)
         ELSE ParseTraversals(d, version,
                              ParseLoop("combos", version, d.v.combos.v, 0, r.s, usts), usts)
    ELSE ParseTraversals(d, version, r, usts)

\* parseJSONversion from the sliders on; r is what the progressions returned.
ParseSliders(d, version, r, usts) ==
    IF ~r.ok THEN r
    ELSE ParseCombos(d, version,
                     ParseLoop("sliders", version, d.v.sliders.v, 0, r.s, usts), usts)

\* parseJSONversion from the progressions on; r is what the shapes returned.
ParseProgressions(d, version, r, usts) ==
    IF ~r.ok THEN r
    ELSE ParseSliders(d, version,
                      ParseLoop("progressions", version, d.v.progressions.v, 0, r.s, usts),
                      usts)

parseJSONversion(d, version, s0, usts) ==
    IF ~HasMember(d, "shapes") THEN Fail(s0)
    ELSE IF ~HasMember(d, "progressions") THEN Fail(s0)
    ELSE IF ~HasMember(d, "sliders") THEN Fail(s0)
    ELSE IF ~IsArray(d.v.shapes) THEN Fail(s0)
    ELSE IF ~IsArray(d.v.sliders) THEN Fail(s0)
    ELSE IF ~IsArray(d.v.progressions) THEN Fail(s0)
    ELSE ParseProgressions(d, version,
                           ParseLoop("shapes", version, d.v.shapes.v, 0, s0, usts), usts)

\* The encoding parseJSON hands to parseJSONversion: 1 without the member.
EncodingVersion(json) ==
    IF HasMember(json, "encodingVersion") THEN json.v.encodingVersion.v ELSE 1

\* Simplex::parseJSON: [ok, s], ok the returned bool.
parseJSON(json, s0, usts) ==
    IF json.t = "malformed"
    THEN Fail([s0 EXCEPT !.built = FALSE, !.hasParseError = TRUE, !.parseError = json.v])
    ELSE IF HasMember(json, "encodingVersion") /\ ~IsUint(json.v.encodingVersion)
    THEN Fail([s0 EXCEPT !.built = FALSE, !.hasParseError = FALSE])
    ELSE parseJSONversion(json, EncodingVersion(json),
                          [s0 EXCEPT !.built = FALSE, !.hasParseError = FALSE], usts)

\* Simplex::clear
clear(s) ==
    [s EXCEPT !.shapes = <<>>, !.progs = <<>>, !.sliders = <<>>, !.combos = <<>>,
              !.floaters = <<>>, !.spaces = <<>>, !.traversals = <<>>,
              !.built = FALSE, !.loaded = FALSE, !.hasParseError = FALSE,
              !.mayDangle = FALSE]

\* Simplex::build adding the new spaces to those it already has.
buildAppending(s) == [s EXCEPT !.spaces = @ \o buildSpaces(s.floaters), !.built = TRUE]

\* Simplex::build
build(s) == [s EXCEPT !.spaces = buildSpaces(s.floaters), !.built = TRUE]

\* Simplex::clearValues
clearValues(s) ==
    [s EXCEPT !.sliders = [i \in 1..Len(@) |-> clearValue(@[i])],
              !.combos = [i \in 1..Len(@) |-> clearValue(@[i])],
              !.floaters = [i \in 1..Len(@) |-> clearValue(@[i])],
              !.traversals = [i \in 1..Len(@) |-> clearValue(@[i])]]

\* Simplex::setExactSolve: Combo::setExact on every element of combos.  The
\* container's own exactSolve member is not assigned.
setExactSolve(s, exact) ==
    [s EXCEPT !.combos = [i \in 1..Len(@) |-> [@[i] EXCEPT !.exact = exact]]]

\* The loop of ShapeController::solve: accumulator[shape->getIndex()] += weight.
RECURSIVE Accumulate(_, _, _, _)
Accumulate(accumulator, shapeVals, shapes, i) ==
    IF i > Len(shapeVals) THEN accumulator
    ELSE Accumulate(
            [accumulator EXCEPT ![shapes[shapeVals[i][1]].index + 1] = RAdd(@, shapeVals[i][2])],
            shapeVals, shapes, i + 1)

\* ShapeController::solve without the fabs.
ControllerSolveNoAbs(c, s, st) ==
    LET vm == RMul(c.value, c.multiplier)
    IN [accumulator |-> Accumulate(st.accumulator,
                                   getOutput(s.progs[c.prog], c.value, c.multiplier),
                                   s.shapes, 1),
        maxAct |-> IF RGt(vm, st.maxAct) THEN vm ELSE st.maxAct]

\* ShapeController::solve; st is [accumulator, maxAct].
ControllerSolve(c, s, st) ==
    LET vm == fabs(RMul(c.value, c.multiplier))
    IN [accumulator |-> Accumulate(st.accumulator,
                                   getOutput(s.progs[c.prog], c.value, c.multiplier),
                                   s.shapes, 1),
        maxAct |-> IF RGt(vm, st.maxAct) THEN vm ELSE st.maxAct]

RECURSIVE SolveEach(_, _, _, _)
SolveEach(ctrls, s, st, i) ==
    IF i > Len(ctrls) THEN st
    ELSE SolveEach(ctrls, s, ControllerSolve(ctrls[i], s, st), i + 1)

RECURSIVE StoreSpaces(_, _, _, _, _, _)
StoreSpaces(spaces, fl, sliders, clamped, inverses, i) ==
    IF i > Len(spaces) THEN fl
    ELSE StoreSpaces(spaces,
                     TriSpaceStoreValue(spaces[i], fl, sliders, clamped, inverses),
                     sliders, clamped, inverses, i + 1)

\* The storeValue loops of Simplex::solve.  values, clamped and inverses are
\* vec and its rectification as the controllers read them.
StoreValues(s, values, clamped, inverses) ==
    LET sliders == [i \in 1..Len(s.sliders) |-> SliderStoreValue(s.sliders[i], values)]
    IN [s EXCEPT
          !.sliders = sliders,
          !.combos = [i \in 1..Len(@) |-> ComboStoreValue(@[i], sliders)],
          !.floaters = StoreSpaces(s.spaces, @, sliders, clamped, inverses, 1),
          !.traversals = [i \in 1..Len(@) |-> TraversalStoreValue(@[i], sliders)]]

\* The end of Simplex::solve: the rest value written over output[0].
OutputRest(st) ==
    IF st.accumulator # <<>>
    THEN [st.accumulator EXCEPT ![1] = RSub(One, st.maxAct)]
    ELSE st.accumulator

\* The solve loops of Simplex::solve and the rest value.
Output(s) ==
    OutputRest(
        SolveEach(s.traversals, s,
            SolveEach(s.floaters, s,
                SolveEach(s.combos, s,
                    SolveEach(s.sliders, s,
                        [accumulator |-> ZeroVec(Len(s.shapes)), maxAct |-> Zero], 1),
                    1),
                1),
            1))

\* The largest input position (from 1) a storeValue reads: values[index] of
\* an enabled slider, clamped[idx] and inverses[idx] of a space's sliders.
IMaxSet(S) == IF S = {} THEN 0 ELSE CHOOSE x \in S : \A y \in S : y <= x

SliderReads(s) ==
    IMaxSet({s.sliders[i].index + 1 : i \in {j \in 1..Len(s.sliders) : s.sliders[j].enabled}})

SpaceReads(s) ==
    IMaxSet(UNION {
        LET sl == s.floaters[s.spaces[k].floaters[1]].stateList
        IN {s.sliders[sl[i].slider].index + 1 : i \in 1..Len(sl)} : k \in 1..Len(s.spaces)})

\* vec as read up to position n: positions past its end hold whatever
\* follows the vector's storage, given by the function past.
ReadPast(vec, n, past) ==
    [i \in 1..IF n > Len(vec) THEN n ELSE Len(vec) |-> IF i <= Len(vec) THEN vec[i] ELSE past[i]]

\* The end of Simplex::solve also taking back the built flag.
SolveOutputUnbuilt(stored) ==
    [s |-> [stored EXCEPT !.built = FALSE], output |-> Output(stored)]

\* What Simplex::solve leaves and returns once the storeValue loops are done.
SolveOutput(stored) == [s |-> stored, output |-> Output(stored)]

\* Simplex::solve: [s, output].  gv, gc, gi: what the reads past the end of
\* vec, clamped and inverses return.
solve(s, vec, gv, gc, gi) ==
    SolveOutput(StoreValues(s, ReadPast(vec, SliderReads(s), gv),
                            ReadPast(rectify(vec).clamped, SpaceReads(s), gc),
                            ReadPast(rectify(vec).inverses, SpaceReads(s), gi)))

(***************************************************************************)
(* The definition documents and the input vectors the operations are run   *)
(* on.                                                                     *)
(***************************************************************************)
ShapeObj == JObj([name |-> JStr("shape")])

PairArr(idx, val) == JArr(<<JInt(idx), JDbl(val)>>)

ProgObj(pairs, interp) ==
    JObj([name |-> JStr("prog"), pairs |-> JArr(pairs), interp |-> JStr(interp)])

SliderObj(prog) == JObj([name |-> JStr("slider"), prog |-> JInt(prog)])

ComboObj(prog, pairs) ==
    JObj([name |-> JStr("combo"), prog |-> JInt(prog), pairs |-> JArr(pairs)])

\* Encoding 2: sliders Sa, Sb and the combo Sa=1, Sb=1.
\* Shapes: 0 rest, 1 A, 2 B, 3 AB, 4 B at one half, 5 A at minus one.
DocCombo ==
    JObj([encodingVersion |-> JInt(2),
          shapes |-> JArr(<<ShapeObj, ShapeObj, ShapeObj, ShapeObj, ShapeObj, ShapeObj>>),
          progressions |-> JArr(<<
              ProgObj(<<PairArr(5, RInt(-1)), PairArr(0, Zero), PairArr(1, One)>>, "splitspline"),
              ProgObj(<<PairArr(0, Zero), PairArr(4, Half), PairArr(2, One)>>, "spline"),
              ProgObj(<<PairArr(0, Zero), PairArr(3, One)>>, "linear")>>),
          sliders |-> JArr(<<SliderObj(0), SliderObj(1)>>),
          combos |-> JArr(<<ComboObj(2, <<PairArr(0, One), PairArr(1, One)>>)>>)])

\* Encoding 2: two sliders whose progressions have the single pair (shape, 1).
DocSingle ==
    JObj([encodingVersion |-> JInt(2),
          shapes |-> JArr(<<ShapeObj, ShapeObj, ShapeObj>>),
          progressions |-> JArr(<<ProgObj(<<PairArr(1, One)>>, "linear"),
                                  ProgObj(<<PairArr(2, One)>>, "linear")>>),
          sliders |-> JArr(<<SliderObj(0), SliderObj(1)>>)])

\* Encoding 3: a floater at Sa=0.5, Sb=0.5 and a traversal from Sa=0, Sb=1
\* to Sa=1, Sb=1.  Shapes: 0 rest, 1 A, 2 B, 3 floater, 4 traversal.
DocFloater ==
    JObj([encodingVersion |-> JInt(3),
          shapes |-> JArr(<<ShapeObj, ShapeObj, ShapeObj, ShapeObj, ShapeObj>>),
          progressions |-> JArr(<<
              ProgObj(<<PairArr(0, Zero), PairArr(1, One)>>, "linear"),
              ProgObj(<<PairArr(0, Zero), PairArr(2, One)>>, "linear"),
              ProgObj(<<PairArr(0, Zero), PairArr(3, One)>>, "linear"),
              ProgObj(<<PairArr(0, Zero), PairArr(4, One)>>, "linear")>>),
          sliders |-> JArr(<<SliderObj(0), SliderObj(1)>>),
          combos |-> JArr(<<ComboObj(2, <<PairArr(0, Half), PairArr(1, Half)>>)>>),
          traversals |-> JArr(<<
              JObj([name |-> JStr("trav"), prog |-> JInt(3),
                    start |-> JArr(<<PairArr(0, Zero), PairArr(1, One)>>),
                    end |-> JArr(<<PairArr(0, One), PairArr(1, One)>>)])>>)])

\* Not JSON: the parser reports an error.
DocMalformed == [t |-> "malformed", v |-> "Invalid value."]

\* Encoding 2, well-formed JSON: the second slider names progression 2 of a
\* document that has one progression.
DocBadSlider ==
    JObj([encodingVersion |-> JInt(2),
          shapes |-> JArr(<<ShapeObj, ShapeObj>>),
          progressions |-> JArr(<<ProgObj(<<PairArr(0, Zero), PairArr(1, One)>>, "linear")>>),
          sliders |-> JArr(<<SliderObj(0), SliderObj(2)>>)])

\* encodingVersion 7 over a body in the layout of encoding 1.
DocV7 ==
    JObj([encodingVersion |-> JInt(7),
          shapes |-> JArr(<<JStr("rest"), JStr("A")>>),
          progressions |-> JArr(<<
              JArr(<<JStr("prog"), JArr(<<JInt(0), JInt(1)>>), JArr(<<JInt(0), JInt(1)>>),
                     JStr("linear")>>)>>),
          sliders |-> JArr(<<JArr(<<JStr("slider"), JInt(0)>>)>>)])

\* encodingVersion is not an unsigned integer.
DocBadVersion ==
    JObj([encodingVersion |-> JStr("2"),
          shapes |-> JArr(<<ShapeObj>>),
          progressions |-> JArr(<<>>),
          sliders |-> JArr(<<>>)])

\* Encoding 3: sliders Sa, Sb whose progression only names the rest shape,
\* and two floaters over them in different orthants: F1 at Sa=0.5, Sb=0.5
\* and F2 at Sa=-0.5, Sb=0.5.  Shapes: 0 rest, 1 F1, 2 F2.
DocOrthants ==
    JObj([encodingVersion |-> JInt(3),
          shapes |-> JArr(<<ShapeObj, ShapeObj, ShapeObj>>),
          progressions |-> JArr(<<
              ProgObj(<<PairArr(0, Zero), PairArr(1, One)>>, "linear"),
              ProgObj(<<PairArr(0, Zero), PairArr(2, One)>>, "linear"),
              ProgObj(<<PairArr(0, Zero), PairArr(0, One)>>, "linear")>>),
          sliders |-> JArr(<<SliderObj(2), SliderObj(2)>>),
          combos |-> JArr(<<ComboObj(0, <<PairArr(0, Half), PairArr(1, Half)>>),
                            ComboObj(1, <<PairArr(0, <<-1, 2>>), PairArr(1, Half)>>)>>)])

\* Encoding 3: slider Sa and the floater at Sa=0.5, Sb=0.5 are disabled.
\* Shapes: 0 rest, 1 A (both sliders), 2 the floater.
DocDisabled ==
    JObj([encodingVersion |-> JInt(3),
          shapes |-> JArr(<<ShapeObj, ShapeObj, ShapeObj>>),
          progressions |-> JArr(<<
              ProgObj(<<PairArr(0, Zero), PairArr(1, One)>>, "linear"),
              ProgObj(<<PairArr(0, Zero), PairArr(2, One)>>, "linear")>>),
          sliders |-> JArr(<<
              JObj([name |-> JStr("slider"), prog |-> JInt(0), enabled |-> JBool(FALSE)]),
              SliderObj(0)>>),
          combos |-> JArr(<<
              JObj([name |-> JStr("combo"), prog |-> JInt(1),
                    pairs |-> JArr(<<PairArr(0, Half), PairArr(1, Half)>>),
                    enabled |-> JBool(FALSE)])>>)])

Docs == <<DocCombo, DocSingle, DocFloater, DocMalformed, DocBadSlider, DocV7, DocBadVersion,
          DocOrthants, DocDisabled>>

\* The documents and inputs of Spec, and those of SpaceSpec, which runs the
\* operations on definitions with several floaters at the floaters' targets.
MainDocs == {1, 2, 3, 4, 5, 6, 7}

SpaceDocs == {3, 8, 9}

SpaceInputs ==
    << <<Zero, Zero>>, <<Half, Half>>, <<<<-1, 2>>, Half>>, <<One, One>>, <<One>> >>

Inputs ==
    << <<Zero, Zero>>, <<One, One>>, <<Half, RInt(-1)>>, <<Half, Zero>>, <<Half, Half>>,
       <<Half, One>>, <<One, Zero>>, <<Zero, One>>, <<One>>, <<One, One, One>> >>

\* What the uninitialised solveType member of a Traversal may hold.
UninitSolveTypes == {"None", "allMul"}

\* What a read past the end of the input may return.
OobValues == {Zero, One}

\* parseJSON is run on a container that holds at most this many shapes.
MaxLoaded == 3

NumTraversals(d) ==
    IF d.t = "obj" /\ HasMember(d, "traversals") /\ IsArray(d.v.traversals)
    THEN Len(d.v.traversals.v) ELSE 0

\* simp: the Simplex instance.  last: the last call that returned.  calls:
\* per thread, the solve call the thread is in, advanced one storeValue or
\* one ShapeController::solve at a time.
VARIABLES simp, last, calls

vars == <<simp, last, calls>>

Threads == {1, 2}

\* A thread that is in no call.  k is the position of the next controller in
\* the loop the call is in; stored and solved are the storeValue and solve
\* calls it has made; alone is the output of the same call on the instance
\* as it was when the call began, run without interruption; mixed records a
\* storeValue of another thread during the call.
Idle == [pc |-> "idle", vec |-> <<>>, k |-> 0, accumulator |-> <<>>, maxAct |-> Zero,
         stored |-> {}, solved |-> {}, output |-> <<>>, alone |-> <<>>, mixed |-> FALSE]

Quiet == \A t \in Threads : calls[t].pc = "idle"

NoCall == [op |-> "none", doc |-> 0, ret |-> FALSE, input |-> <<>>, output |-> <<>>,
           oob |-> FALSE, ub |-> FALSE, flag |-> FALSE]

\* Simplex(): the constructed, empty container.
Init ==
    /\ simp = EmptySimplex
    /\ last = NoCall
    /\ calls = [t \in Threads |-> Idle]

Clear ==
    /\ simp' = clear(simp)
    /\ last' = [NoCall EXCEPT !.op = "clear"]
    /\ UNCHANGED calls

\* The state after parseJSON returned r.
ParseReturns(d, r) ==
    /\ simp' = r.s
    /\ last' = [NoCall EXCEPT !.op = "parseJSON", !.doc = d, !.ret = r.ok]
    /\ UNCHANGED calls

ParseJSON(d) ==
    /\ Len(simp.shapes) <= MaxLoaded
    /\ \E usts \in [1..NumTraversals(Docs[d]) -> UninitSolveTypes] :
          ParseReturns(d, parseJSON(Docs[d], simp, usts))

\* build(); flag records whether the container was built before the call.
Build ==
    /\ simp' = build(simp)
    /\ last' = [NoCall EXCEPT !.op = "build", !.flag = simp.built]
    /\ UNCHANGED calls

ClearValues ==
    /\ simp' = clearValues(simp)
    /\ last' = [NoCall EXCEPT !.op = "clearValues"]
    /\ UNCHANGED calls

SetExactSolve(flag) ==
    /\ simp' = setExactSolve(simp, flag)
    /\ last' = [NoCall EXCEPT !.op = "setExactSolve", !.flag = flag]
    /\ UNCHANGED calls

\* solve(vec).  When pointers may dangle (ub) the call can do anything; it is
\* modelled as returning nothing and leaving the container as it was.
SolveReturns(vec, oob, r) ==
    /\ simp' = r.s
    /\ last' = [NoCall EXCEPT !.op = "solve", !.input = vec, !.output = r.output,
                              !.oob = oob]
    /\ UNCHANGED calls

SolveVec(vec) ==
    LET oobS == (Len(vec) + 1)..SliderReads(simp)
        oobT == (Len(vec) + 1)..SpaceReads(simp)
    IN \/ /\ simp.mayDangle
          /\ UNCHANGED simp
          /\ last' = [NoCall EXCEPT !.op = "solve", !.input = vec, !.ub = TRUE]
          /\ UNCHANGED calls
       \/ \E gv \in [oobS -> OobValues], gc \in [oobT -> OobValues], gi \in [oobT -> BOOLEAN] :
             SolveReturns(vec, oobS # {} \/ oobT # {}, solve(simp, vec, gv, gc, gi))

Solve(v) == SolveVec(Inputs[v])

Next ==
    \/ Clear
    \/ \E d \in MainDocs : ParseJSON(d)
    \/ Build
    \/ ClearValues
    \/ \E flag \in BOOLEAN : SetExactSolve(flag)
    \/ \E v \in 1..Len(Inputs) : Solve(v)

Spec == Init /\ [][Next]_vars

SpaceNext ==
    \/ Clear
    \/ \E d \in SpaceDocs : ParseJSON(d)
    \/ Build
    \/ ClearValues
    \/ \E v \in 1..Len(SpaceInputs) : SolveVec(SpaceInputs[v])

SpaceSpec == Init /\ [][SpaceNext]_vars

(***************************************************************************)
(* Simplex::solve one controller at a time.  Each thread in a solve call   *)
(* makes the call's storeValue and ShapeController::solve calls one by     *)
(* one, and the calls of two threads on the one instance interleave.  The  *)
(* instance has no lock; the interleavings of whole storeValue and solve   *)
(* calls are among the executions two concurrent calls can have.           *)
(***************************************************************************)

\* No read past the end of the input vector.
NoPast == <<>>

StepDocs == {1, 3}

StepInputs == << <<One, One>>, <<Half, Half>> >>

Tagged(kind, n) == [i \in 1..n |-> <<kind, i>>]

\* The storeValue loops with the loop over the combos run first.
StoreOrderCombosFirst(s) ==
    Tagged("combo", Len(s.combos)) \o Tagged("slider", Len(s.sliders))
        \o Tagged("space", Len(s.spaces)) \o Tagged("traversal", Len(s.traversals))

\* The four storeValue loops of Simplex::solve, in the order they run.
StoreOrder(s) ==
    Tagged("slider", Len(s.sliders)) \o Tagged("combo", Len(s.combos))
        \o Tagged("space", Len(s.spaces)) \o Tagged("traversal", Len(s.traversals))

\* The four loops of Simplex::solve without the loop over the combos.
SolveOrderNoCombos(s) ==
    Tagged("slider", Len(s.sliders))
        \o Tagged("floater", Len(s.floaters)) \o Tagged("traversal", Len(s.traversals))

\* The four ShapeController::solve loops of Simplex::solve, in the order
\* they run.
SolveOrder(s) ==
    Tagged("slider", Len(s.sliders)) \o Tagged("combo", Len(s.combos))
        \o Tagged("floater", Len(s.floaters)) \o Tagged("traversal", Len(s.traversals))

\* One storeValue call of Simplex::solve: e names the controller or space,
\* r is the rectified input.
StoreOne(s, e, vec, r) ==
    CASE e[1] = "slider" -> [s EXCEPT !.sliders[e[2]] = SliderStoreValue(@, vec)]
      [] e[1] = "combo" -> [s EXCEPT !.combos[e[2]] = ComboStoreValue(@, s.sliders)]
      [] e[1] = "space" ->
            [s EXCEPT !.floaters = TriSpaceStoreValue(s.spaces[e[2]], @, s.sliders,
                                                      r.clamped, r.inverses)]
      [] OTHER -> [s EXCEPT !.traversals[e[2]] = TraversalStoreValue(@, s.sliders)]

\* One xit->solve(output, maxAct) call of Simplex::solve.
SolveOne(s, e, st) ==
    CASE e[1] = "slider" -> ControllerSolve(s.sliders[e[2]], s, st)
      [] e[1] = "combo" -> ControllerSolve(s.combos[e[2]], s, st)
      [] e[1] = "floater" -> ControllerSolve(s.floaters[e[2]], s, st)
      [] OTHER -> ControllerSolve(s.traversals[e[2]], s, st)

InFlight(t) == calls[t].pc \in {"store", "solve"}

\* A thread enters Simplex::solve on a built instance: rectify.
Begin(t, v) ==
    /\ calls[t].pc = "idle"
    /\ simp.loaded /\ simp.built /\ ~simp.mayDangle
    /\ calls' = [calls EXCEPT ![t] =
                    [Idle EXCEPT !.pc = "store", !.vec = StepInputs[v], !.k = 1,
                                 !.alone = solve(simp, StepInputs[v], NoPast, NoPast,
                                                 NoPast).output]]
    /\ UNCHANGED <<simp, last>>

\* The next storeValue call of the thread's storeValue loops.
Store(t) ==
    /\ calls[t].pc = "store"
    /\ calls[t].k <= Len(StoreOrder(simp))
    /\ simp' = StoreOne(simp, StoreOrder(simp)[calls[t].k], calls[t].vec,
                        rectify(calls[t].vec))
    /\ calls' = [u \in Threads |->
                    IF u = t
                    THEN [calls[t] EXCEPT !.k = @ + 1,
                                          !.stored = @ \cup {StoreOrder(simp)[calls[t].k]}]
                    ELSE [calls[u] EXCEPT !.mixed = @ \/ InFlight(u)]]
    /\ UNCHANGED last

\* The storeValue loops are over: output.resize(shapes.size()), maxAct = 0.
Resize(t) ==
    /\ calls[t].pc = "store"
    /\ calls[t].k > Len(StoreOrder(simp))
    /\ calls' = [calls EXCEPT ![t].pc = "solve", ![t].k = 1,
                              ![t].accumulator = ZeroVec(Len(simp.shapes)),
                              ![t].maxAct = Zero]
    /\ UNCHANGED <<simp, last>>

StepState(c, st) == [c EXCEPT !.accumulator = st.accumulator, !.maxAct = st.maxAct]

\* The next ShapeController::solve call of the thread's solve loops.
Contribute(t) ==
    /\ calls[t].pc = "solve"
    /\ calls[t].k <= Len(SolveOrder(simp))
    /\ calls' = [calls EXCEPT ![t] =
                    [StepState(calls[t],
                               SolveOne(simp, SolveOrder(simp)[calls[t].k],
                                        [accumulator |-> calls[t].accumulator,
                                         maxAct |-> calls[t].maxAct]))
                        EXCEPT !.k = @ + 1,
                               !.solved = @ \cup {SolveOrder(simp)[calls[t].k]}]]
    /\ UNCHANGED <<simp, last>>

\* The solve loops are over: the rest value, and the output is ready.
Rest(t) ==
    /\ calls[t].pc = "solve"
    /\ calls[t].k > Len(SolveOrder(simp))
    /\ calls' = [calls EXCEPT ![t].pc = "done",
                              ![t].output = OutputRest([accumulator |-> calls[t].accumulator,
                                                        maxAct |-> calls[t].maxAct])]
    /\ UNCHANGED <<simp, last>>

\* return output: the caller has taken calls[t].output, and the thread is
\* free for its next call.
Return(t) ==
    /\ calls[t].pc = "done"
    /\ calls' = [calls EXCEPT ![t] = Idle]
    /\ UNCHANGED <<simp, last>>

\* The instance is defined and built by one thread before any solve call.
StepNext ==
    \/ \E d \in StepDocs : Quiet /\ ~simp.loaded /\ ParseJSON(d)
    \/ Quiet /\ ~simp.built /\ Build
    \/ \E t \in Threads, v \in 1..Len(StepInputs) : Begin(t, v)
    \/ \E t \in Threads : Store(t)
    \/ \E t \in Threads : Resize(t)
    \/ \E t \in Threads : Contribute(t)
    \/ \E t \in Threads : Rest(t)
    \/ \E t \in Threads : Return(t)

StepSpec == Init /\ [][StepNext]_vars

(***************************************************************************)
(* The functions of the library called on their own, on arguments drawn    *)
(* from small sets.  last.input holds the arguments of the call and        *)
(* last.output what the call returned or left behind.                      *)
(***************************************************************************)

Tiny == <<1, 2000000>>

\* Slider values a combo reads: zero, values inside and outside [-1, 1], and
\* values inside the EPS band around zero.
ComboValues == {Zero, <<1, 4>>, Half, One, <<2, 1>>, RNeg(Half), RNeg(<<2, 1>>)}

BandValues == {Tiny, RNeg(Tiny)}

\* The calls whose products stay within the 32-bit integers of TLC: a band
\* value squared does not.
Computable(vals, solveType) ==
    \/ \A i \in 1..Len(vals) : vals[i] \notin BandValues
    \/ Len(vals) = 1 /\ solveType \in {"min", "None", "allMul", "mulAvgAll"}

ComboTargets == {One, RNeg(One)}

MaxComboSliders == 2

\* n sliders holding vals, as Slider::storeValue left them.
SlidersHolding(vals) == [i \in 1..Len(vals) |-> [Slider(1, i - 1) EXCEPT !.value = vals[i]]]

\* A combo over the sliders with the targets tars, holding value from an
\* earlier solve.
ComboOver(tars, solveType, exact, value, sliders) ==
    [Combo(1, 0, [i \in 1..Len(tars) |-> [slider |-> i, val |-> tars[i]]], FALSE,
           solveType, sliders)
        EXCEPT !.exact = exact, !.value = value]

\* The calls do not depend on one another: each is made once, from the
\* initial state.
NoCallYet == last = NoCall

\* Combo::storeValue on the combo c over the sliders.
CallComboStore(c, sliders) ==
    /\ last' = [NoCall EXCEPT !.op = "Combo::storeValue",
                              !.input = [combo |-> c, sliders |-> sliders],
                              !.output = ComboStoreValue(c, sliders)]
    /\ UNCHANGED <<simp, calls>>

ComboStore ==
    /\ NoCallYet
    /\ \E n \in 1..MaxComboSliders :
        \E vals \in [1..n -> ComboValues \cup BandValues], tars \in [1..n -> ComboTargets],
           solveType \in SolveTypes, exact \in BOOLEAN, value \in {Zero, Half} :
            /\ Computable(vals, solveType)
            /\ CallComboStore(ComboOver(tars, solveType, exact, value, SlidersHolding(vals)),
                           SlidersHolding(vals))

\* The sliders and values of the start and end states of a traversal; NaN
\* marks a slider the state does not name.
TravSliders == {1, 2, 3}

TravValues == {Zero, Half, One}

TravStates == [TravSliders -> TravValues \cup {NaN}]

\* The pair list of a state, in slider order.
RECURSIVE PairsFrom(_, _)
PairsFrom(f, sls) ==
    IF sls = <<>> THEN <<>>
    ELSE (IF f[Head(sls)] = NaN THEN <<>> ELSE <<[slider |-> Head(sls), val |-> f[Head(sls)]]>>)
            \o PairsFrom(f, Tail(sls))

StatePairs(f) == PairsFrom(f, SetToSortedSeq(TravSliders))

\* Traversal::Traversal on a start and an end state.
TraversalBuild ==
    /\ NoCallYet
    /\ \E start \in TravStates, end \in TravStates, ust \in UninitSolveTypes :
        /\ last' = [NoCall EXCEPT !.op = "Traversal::Traversal",
                                  !.input = [start |-> start, end |-> end],
                                  !.output = Traversal(1, 0, StatePairs(start), StatePairs(end),
                                                       "min", ust)]
        /\ UNCHANGED <<simp, calls>>

\* The coordinates of a floater target in the positive orthant, and the
\* factors the target is scaled by to give the input.
TargetCoords == {<<1, 4>>, Half, <<3, 4>>, One}

Scales == {<<1, 4>>, Half, <<3, 4>>, One}

MaxFloaterSliders == 3

\* The targets that make a combo a floater: a coordinate that is not 1.
FloaterTargets(n) == {p \in [1..n -> TargetCoords] : \E i \in 1..n : p[i] # One}

\* The floaters vector holding the one floater with target p.
OneFloater(p, sliders) ==
    <<Floater(1, 0, [i \in 1..Len(p) |-> [slider |-> i, val |-> p[i]]], TRUE, sliders)>>

\* TriSpace::storeValue of the space built for the floaters fl, on the
\* rectified input r.
SpaceStored(fl, sliders, r) ==
    TriSpaceStoreValue(buildSpaces(fl)[1], fl, sliders, r.clamped, r.inverses)

\* buildSpaces and TriSpace::storeValue for one floater with target p and
\* the input scale * p.
TriSpaceStore ==
    /\ NoCallYet
    /\ \E n \in 1..MaxFloaterSliders :
        \E p \in FloaterTargets(n), scale \in Scales :
            /\ last' = [NoCall EXCEPT
                          !.op = "TriSpace::storeValue",
                          !.input = [target |-> p, scale |-> scale],
                          !.output = SpaceStored(
                              OneFloater(p, SlidersHolding([i \in 1..n |-> RMul(scale, p[i])])),
                              SlidersHolding([i \in 1..n |-> RMul(scale, p[i])]),
                              rectify([i \in 1..n |-> RMul(scale, p[i])]))]
            /\ UNCHANGED <<simp, calls>>

\* The pair lists of a progression object in a definition: shape indices
\* (3 names no shape of the three) and parameters in any order.
MaxPairs == 3

PairShapes == {0, 1, 3}

PairTimes == {Zero, Half, One}

ThreeShapes == [EmptySimplex EXCEPT !.shapes = <<[index |-> 0], [index |-> 1], [index |-> 2]>>]

\* Progression::parseJSONv3 on a progression object with the given pairs,
\* for a Simplex that holds three shapes.
ProgressionParse ==
    /\ NoCallYet
    /\ \E n \in 1..MaxPairs :
        \E shapes \in [1..n -> PairShapes], times \in [1..n -> PairTimes],
           interp \in {"linear", "spline", "splitspline"} :
            /\ last' = [NoCall EXCEPT
                          !.op = "Progression::parseJSON",
                          !.input = [shapes |-> shapes, times |-> times, interp |-> interp],
                          !.ret = ProgressionParseJSONv3(
                                      ProgObj([j \in 1..n |-> PairArr(shapes[j], times[j])],
                                              interp), 0, ThreeShapes).ok,
                          !.output = ProgressionParseJSONv3(
                                      ProgObj([j \in 1..n |-> PairArr(shapes[j], times[j])],
                                              interp), 0, ThreeShapes).s.progs]
            /\ UNCHANGED <<simp, calls>>

\* The parameters of the pairs of a progression as a definition gives them
\* (in any order, repeated or not), and the parameters it is sampled at.
MaxProgPairs == 4

ProgTimes == {RNeg(One), Zero, Half, One}

SampleTimes == {RNeg(One), RNeg(Half), Zero, <<1, 4>>, Half, <<3, 4>>, One, <<3, 2>>}

\* The progression the constructor builds from the parameters: pair j names
\* shape j of the definition.
ProgOver(times, interp) ==
    Progression([j \in 1..Len(times) |-> [shape |-> j, time |-> times[j]]], interp)

\* Progression::getOutput(tVal, mul) on a progression as built.
ProgressionOutput ==
    /\ NoCallYet
    /\ \E n \in 1..MaxProgPairs :
        \E times \in [1..n -> ProgTimes], interp \in {"linear", "spline", "splitSpline"},
           tVal \in SampleTimes, mul \in {One, Half} :
            /\ last' = [NoCall EXCEPT
                          !.op = "Progression::getOutput",
                          !.input = [prog |-> ProgOver(times, interp), tVal |-> tVal,
                                     mul |-> mul],
                          !.output = getOutput(ProgOver(times, interp), tVal, mul)]
            /\ UNCHANGED <<simp, calls>>

\* The states over the first two sliders, and the values the two sliders
\* hold when a traversal stores its value.
TwoSliderStates == {f \in TravStates : f[3] = NaN}

TravSliderValues == {Zero, Half, One, <<2, 1>>}

\* Traversal::storeValue on the traversal built from a start and an end
\* state, over sliders holding vals.
TraversalStore ==
    /\ NoCallYet
    /\ \E start \in TwoSliderStates, end \in TwoSliderStates, ust \in UninitSolveTypes,
          vals \in [1..2 -> TravSliderValues] :
            /\ last' = [NoCall EXCEPT
                          !.op = "Traversal::storeValue",
                          !.input = [traversal |-> Traversal(1, 0, StatePairs(start),
                                                             StatePairs(end), "min", ust),
                                     vals |-> vals],
                          !.output = TraversalStoreValue(
                                        Traversal(1, 0, StatePairs(start), StatePairs(end),
                                                  "min", ust),
                                        SlidersHolding(vals))]
            /\ UNCHANGED <<simp, calls>>

\* The coordinates of the points that are encoded (two of them closer than
\* the tolerance triangulate uses) and the tolerances.
MaxPointDim == 3

PointCoords == {Zero, <<1, 4>>, Half, <<101, 200>>, One}

Tolerances == {Zero, AdjEps, Half}

\* pointToSimp(pt) and pointToAdjSimp(pt, eps) on one point.
PointEncode ==
    /\ NoCallYet
    /\ \E n \in 1..MaxPointDim :
        \E pt \in [1..n -> PointCoords], eps \in Tolerances :
            /\ last' = [NoCall EXCEPT
                          !.op = "TriSpace::pointToSimp",
                          !.input = [pt |-> pt, eps |-> eps],
                          !.output = [simp |-> pointToSimp(pt),
                                      adj |-> pointToAdjSimp(pt, eps)]]
            /\ UNCHANGED <<simp, calls>>

FnNext ==
    \/ ComboStore
    \/ TraversalBuild
    \/ TriSpaceStore
    \/ ProgressionParse
    \/ ProgressionOutput
    \/ TraversalStore
    \/ PointEncode

FnSpec == Init /\ [][FnNext]_vars

(***************************************************************************)
(* Properties.                                                             *)
(***************************************************************************)


Solved == last.op = "solve" /\ ~last.ub

\* C1: on a built Simplex the output of solve(v) does not depend on the
\* inputs of earlier solve calls: it is the output solve(v) gives when every
\* controller starts from value 0 and multiplier 1.
C1_SolveIndependentOfHistory ==
    [][(last'.op = "solve" /\ ~last'.ub /\ ~last'.oob /\ simp.built)
        => last'.output = solve(clearValues(simp), last'.input, NoPast, NoPast, NoPast).output]_vars

SignMismatch(stateList, sliders) ==
    \E i \in 1..Len(stateList) :
        (~isPositive(sliders[stateList[i].slider].value)) # (~isPositive(stateList[i].val))

\* The controller adds zero to every output entry other than entry 0.
AddsNothing(c, s) ==
    LET out == getOutput(s.progs[c.prog], c.value, c.multiplier)
    IN \A j \in 1..Len(out) : s.shapes[out[j][1]].index # 0 => out[j][2] = Zero

\* C2: after the storage phase of a solve call, a Combo or Traversal one of
\* whose sliders holds a value of the other sign than its target has value 0
\* and adds zero to every output entry other than entry 0.
C2_SignMismatchContributesZero ==
    Solved =>
        /\ \A i \in 1..Len(simp.combos) :
              LET c == simp.combos[i]
              IN (c.enabled /\ ~c.isFloater /\ SignMismatch(c.stateList, simp.sliders))
                     => (c.value = Zero /\ AddsNothing(c, simp))
        /\ \A i \in 1..Len(simp.traversals) :
              LET t == simp.traversals[i]
              IN (t.enabled /\ SignMismatch(t.multState, simp.sliders))
                     => (t.value = Zero /\ AddsNothing(t, simp))

AllZero(vec) == \A i \in 1..Len(vec) : vec[i] = Zero

RestOnly(output) == output # <<>> /\ output[1] = One /\ \A i \in 2..Len(output) : output[i] = Zero

\* C3: for a parsed and built definition, solve on the all-zero input
\* returns 1 in entry 0 and 0 in every other entry.
C3_ZeroInputGivesRest ==
    (Solved /\ ~last.oob /\ simp.loaded /\ simp.built /\ AllZero(last.input))
        => RestOnly(last.output)

OneHot(vec, idx) ==
    /\ idx + 1 <= Len(vec)
    /\ vec[idx + 1] = One
    /\ \A j \in 1..Len(vec) : j # idx + 1 => vec[j] = Zero

\* The pairs slider i's progression interpolates over at parameter 1.
PairsAtOne(prog) ==
    IF prog.interp = "splitSpline" THEN SidedPairs(prog.pairs, One) ELSE prog.pairs

ShapeIndexes(s, prog) == {s.shapes[prog.pairs[j].shape].index : j \in 1..Len(prog.pairs)}

\* No controller other than slider i has a progression naming shape index k.
OnlySliderNames(s, i, k) ==
    /\ \A j \in 1..Len(s.sliders) : j # i => k \notin ShapeIndexes(s, s.progs[s.sliders[j].prog])
    /\ \A j \in 1..Len(s.combos) : k \notin ShapeIndexes(s, s.progs[s.combos[j].prog])
    /\ \A j \in 1..Len(s.floaters) : k \notin ShapeIndexes(s, s.progs[s.floaters[j].prog])
    /\ \A j \in 1..Len(s.traversals) : k \notin ShapeIndexes(s, s.progs[s.traversals[j].prog])

\* Slider i is enabled, the input is 1 at it and 0 elsewhere, pair j of the
\* pairs its progression interpolates over is (k, 1), k is not the rest
\* shape, and nothing else names k.
IdentityCase(s, input, i, j) ==
    LET sl == s.sliders[i]
        pairs == PairsAtOne(s.progs[sl.prog])
    IN /\ sl.enabled
       /\ OneHot(input, sl.index)
       /\ j \in 1..Len(pairs)
       /\ pairs[j].time = One
       /\ s.shapes[pairs[j].shape].index # 0
       /\ \A m \in 1..Len(pairs) : m # j => pairs[m].shape # pairs[j].shape
       /\ OnlySliderNames(s, i, s.shapes[pairs[j].shape].index)

IdentityHolds(s, output, i, j) ==
    output[s.shapes[PairsAtOne(s.progs[s.sliders[i].prog])[j].shape].index + 1] = One

Activations(s) ==
    {fabs(RMul(s.sliders[i].value, s.sliders[i].multiplier)) : i \in 1..Len(s.sliders)}
    \cup {fabs(RMul(s.combos[i].value, s.combos[i].multiplier)) : i \in 1..Len(s.combos)}
    \cup {fabs(RMul(s.floaters[i].value, s.floaters[i].multiplier)) : i \in 1..Len(s.floaters)}
    \cup {fabs(RMul(s.traversals[i].value, s.traversals[i].multiplier)) :
             i \in 1..Len(s.traversals)}

IsMaxActivation(m, s) ==
    /\ m \in Activations(s) \cup {Zero}
    /\ \A x \in Activations(s) \cup {Zero} : RLe(x, m)

\* C5: when there is at least one shape, output[0] of solve is 1 minus the
\* largest |value * multiplier| over all sliders, combos, floaters and
\* traversals after the storage phase (0 when there is none).
C5_RestIsOneMinusMaxActivation ==
    (Solved /\ simp.shapes # <<>>) =>
        \E m \in Activations(simp) \cup {Zero} :
            IsMaxActivation(m, simp) /\ last.output[1] = RSub(One, m)

\* C5 witness: a solve whose largest activation, 1, is a combo's, while the
\* progressions added to entry 0.
C5_Witness ==
    /\ Solved /\ simp.shapes # <<>>
    /\ \E i \in 1..Len(simp.combos) : simp.combos[i].value = One
    /\ IsMaxActivation(One, simp)
    /\ last.output[1] = Zero

\* vec cut to n entries, or filled with zeros up to n entries.
Fit(vec, n) == [i \in 1..n |-> IF i <= Len(vec) THEN vec[i] ELSE Zero]

\* C6: solve(v) returns what solve returns for v cut to the slider count or
\* padded with zeros up to it.
C6_InputFittedToSliderCount ==
    [][(last'.op = "solve" /\ ~last'.ub)
        => last'.output =
             solve(simp, Fit(last'.input, Len(simp.sliders)), NoPast, NoPast, NoPast).output]_vars

IsCleared(s) ==
    /\ s.shapes = <<>> /\ s.progs = <<>> /\ s.sliders = <<>> /\ s.combos = <<>>
    /\ s.floaters = <<>> /\ s.traversals = <<>> /\ s.spaces = <<>>
    /\ ~s.loaded /\ ~s.built

\* C7: when parseJSON returns false the container is cleared: every
\* collection is empty, loaded and built are false.
C7_FailedParseLeavesCleared ==
    (last.op = "parseJSON" /\ ~last.ret) => IsCleared(simp)

\* C8: when parseJSON fails on a document that is well-formed JSON,
\* hasParseError is true and parseError holds a message.
C8_SchemaViolationRecorded ==
    (last.op = "parseJSON" /\ ~last.ret /\ Docs[last.doc].t # "malformed")
        => (simp.hasParseError /\ simp.parseError # "")

UnknownEncoding(d) ==
    /\ d.t = "obj"
    /\ HasMember(d, "encodingVersion")
    /\ IsUint(d.v.encodingVersion)
    /\ d.v.encodingVersion.v \notin {1, 2, 3}

\* C9: parseJSON returns false and leaves loaded false for a document whose
\* encodingVersion is an unsigned integer other than 1, 2 or 3.
C9_UnknownEncodingFails ==
    (last.op = "parseJSON" /\ UnknownEncoding(Docs[last.doc]))
        => (~last.ret /\ ~simp.loaded)

Counts(s) ==
    <<Len(s.shapes), Len(s.progs), Len(s.sliders), Len(s.combos), Len(s.floaters),
      Len(s.traversals)>>

StateRefs(stateList) == [i \in 1..Len(stateList) |-> stateList[i].slider]

\* The index references between the elements.
Refs(s) ==
    [progs |-> [i \in 1..Len(s.progs) |->
                   [j \in 1..Len(s.progs[i].pairs) |-> s.progs[i].pairs[j].shape]],
     sliders |-> [i \in 1..Len(s.sliders) |-> s.sliders[i].prog],
     combos |-> [i \in 1..Len(s.combos) |->
                   <<s.combos[i].prog, StateRefs(s.combos[i].stateList)>>],
     floaters |-> [i \in 1..Len(s.floaters) |->
                   <<s.floaters[i].prog, StateRefs(s.floaters[i].stateList)>>],
     traversals |-> [i \in 1..Len(s.traversals) |->
                   <<s.traversals[i].prog, StateRefs(s.traversals[i].multState),
                     StateRefs(s.traversals[i].progStartState)>>]]

\* C10: a second parseJSON of the same valid document right after the first
\* leaves the counts of shapes, progressions, sliders, combos, floaters and
\* traversals, and the index references between them, as the first left them.
C10_ReparseSameDocument ==
    [][(last.op = "parseJSON" /\ last.ret /\ last'.op = "parseJSON" /\ last'.doc = last.doc)
        => (Counts(simp') = Counts(simp) /\ Refs(simp') = Refs(simp))]_vars


\* C11: after setExactSolve(flag) on a loaded Simplex the container's own
\* exact setting (what getExactSolve returns) is flag, and so is the exact
\* flag of every combo.
C11_SetExactSolveUpdatesBoth ==
    (last.op = "setExactSolve" /\ simp.loaded) =>
        /\ simp.exactSolve = last.flag
        /\ \A i \in 1..Len(simp.combos) : simp.combos[i].exact = last.flag


\* The pairs [index, value] of a document array all name an element below size.
PairsInRange(arr, size) ==
    \A j \in 1..Len(arr) : ~OutOfRange(arr[j].v[1].v, size)

\* The object layout of encodings 2 and 3: every index the document names
\* is below the count of the document's own shapes, progressions and sliders.
ObjectDocInRange(d) ==
    /\ \A i \in 1..Len(d.v.progressions.v) :
          PairsInRange(d.v.progressions.v[i].v.pairs.v, Len(d.v.shapes.v))
    /\ \A i \in 1..Len(d.v.sliders.v) :
          ~OutOfRange(d.v.sliders.v[i].v.prog.v, Len(d.v.progressions.v))
    /\ HasMember(d, "combos") =>
          \A i \in 1..Len(d.v.combos.v) :
              /\ ~OutOfRange(d.v.combos.v[i].v.prog.v, Len(d.v.progressions.v))
              /\ PairsInRange(d.v.combos.v[i].v.pairs.v, Len(d.v.sliders.v))
    /\ HasMember(d, "traversals") =>
          \A i \in 1..Len(d.v.traversals.v) :
              /\ ~OutOfRange(d.v.traversals.v[i].v.prog.v, Len(d.v.progressions.v))
              /\ PairsInRange(d.v.traversals.v[i].v.start.v, Len(d.v.sliders.v))
              /\ PairsInRange(d.v.traversals.v[i].v.end.v, Len(d.v.sliders.v))

\* The array layout of encoding 1: [name, indices, weights] progressions,
\* [name, prog] sliders, [name, prog, state] combos.
ArrayDocInRange(d) ==
    /\ \A i \in 1..Len(d.v.progressions.v) :
          \A j \in 1..Len(d.v.progressions.v[i].v[2].v) :
              ~OutOfRange(d.v.progressions.v[i].v[2].v[j].v, Len(d.v.shapes.v))
    /\ \A i \in 1..Len(d.v.sliders.v) :
          ~OutOfRange(d.v.sliders.v[i].v[2].v, Len(d.v.progressions.v))
    /\ HasMember(d, "combos") =>
          \A i \in 1..Len(d.v.combos.v) :
              /\ ~OutOfRange(d.v.combos.v[i].v[2].v, Len(d.v.progressions.v))
              /\ PairsInRange(d.v.combos.v[i].v[3].v, Len(d.v.sliders.v))

DocInRange(d) ==
    IF EncodingVersion(d) \in {2, 3} THEN ObjectDocInRange(d) ELSE ArrayDocInRange(d)

\* C12: parseJSON returns true only for a document in which every index is
\* in range: pair shape indices below the document's shape count, controller
\* progression indices below its progression count, combo and traversal
\* slider indices below its slider count.
C12_ParsedOnlyIfIndicesInRange ==
    (last.op = "parseJSON" /\ last.ret) => DocInRange(Docs[last.doc])


\* The input is floater f's target point: on every slider of f's state it
\* holds f's target, and 0 on every other slider.
AtTarget(vec, f, s) ==
    /\ Len(vec) = Len(s.sliders)
    /\ \A i \in 1..Len(f.stateList) : vec[s.sliders[f.stateList[i].slider].index + 1] = f.stateList[i].val
    /\ \A k \in 1..Len(s.sliders) :
          (\A i \in 1..Len(f.stateList) : f.stateList[i].slider # k)
             => vec[s.sliders[k].index + 1] = Zero

\* Floater m of space sp has value 1 and its other floaters have value 0.
OnlyFloaterOn(sp, m, s) ==
    \A k \in 1..Len(sp.floaters) :
        floatEQ(s.floaters[sp.floaters[k]].value, IF k = m THEN One ELSE Zero, EPS)

\* C13: after solve on a built Simplex with the input at the target point of
\* a floater F of a TriSpace, F has value 1 and every other floater of that
\* TriSpace has value 0, also when F's targets are negative on some slider.
C13_FloaterTargetGivesOne ==
    (Solved /\ ~last.oob /\ simp.loaded /\ simp.built) =>
        \A k \in 1..Len(simp.spaces) : \A m \in 1..Len(simp.spaces[k].floaters) :
            AtTarget(last.input, simp.floaters[simp.spaces[k].floaters[m]], simp)
               => OnlyFloaterOn(simp.spaces[k], m, simp)

\* The floaters at positions a and b have as many sliders, the same sliders
\* in the same order, and targets of the same sign on each.
SameSpan(a, b, s) ==
    /\ Len(s.floaters[a].stateList) = Len(s.floaters[b].stateList)
    /\ \A i \in 1..Len(s.floaters[a].stateList) :
          /\ s.floaters[a].stateList[i].slider = s.floaters[b].stateList[i].slider
          /\ RLt(s.floaters[a].stateList[i].val, Zero) = RLt(s.floaters[b].stateList[i].val, Zero)

SpacesOf(a, s) == {k \in 1..Len(s.spaces) : a \in SeqToSet(s.spaces[k].floaters)}

\* C14: after build every floater is in exactly one TriSpace, and two
\* floaters share a TriSpace exactly when they have as many sliders, the same
\* sliders in the same order and the same sign on every target.
C14_SpacesGroupBySpanAndOrthant ==
    (last.op = "build" /\ simp.loaded) =>
        /\ \A a \in 1..Len(simp.floaters) : Cardinality(SpacesOf(a, simp)) = 1
        /\ \A a, b \in 1..Len(simp.floaters) :
              (SpacesOf(a, simp) = SpacesOf(b, simp)) <=> SameSpan(a, b, simp)


\* The controller adds nothing to an entry other than entry 0, which solve
\* overwrites, and cannot raise maxAct.
Silent(c, s) == AddsNothing(c, s) /\ isZero(RMul(c.value, c.multiplier))

AllSilent(ctrls, s) == \A i \in 1..Len(ctrls) : ~ctrls[i].enabled => Silent(ctrls[i], s)

\* C19: after solve, a controller whose enabled flag is false, whether a
\* slider, combo, floater or traversal, adds nothing to the output and does
\* not raise maxAct.
C19_DisabledContributesNothing ==
    (Solved /\ ~last.oob /\ simp.loaded /\ simp.built) =>
        /\ AllSilent(simp.sliders, simp)
        /\ AllSilent(simp.combos, simp)
        /\ AllSilent(simp.floaters, simp)
        /\ AllSilent(simp.traversals, simp)

\* The traversals the last parseJSON call made from the entries of d: the
\* last ones of the container.
ParsedTraversal(d, i, s) == s.traversals[Len(s.traversals) - NumTraversals(d) + i]

\* C20: a traversal made from an entry of an encoding 3 document holds the
\* solveType of that entry (None when the entry names none), which is the
\* reducer storeValue hands to solveState.
C20_TraversalUsesDocumentSolveType ==
    (last.op = "parseJSON" /\ last.ret /\ EncodingVersion(Docs[last.doc]) = 3) =>
        \A i \in 1..NumTraversals(Docs[last.doc]) :
            ParsedTraversal(Docs[last.doc], i, simp).solveType
                = getSolveType(Docs[last.doc].v.traversals.v[i])


Untouched(c) == [c EXCEPT !.value = Zero, !.multiplier = One]

\* Everything of the container but the value and multiplier of controllers.
Frame(s) ==
    [s EXCEPT !.sliders = [i \in 1..Len(@) |-> Untouched(@[i])],
              !.combos = [i \in 1..Len(@) |-> Untouched(@[i])],
              !.floaters = [i \in 1..Len(@) |-> Untouched(@[i])],
              !.traversals = [i \in 1..Len(@) |-> Untouched(@[i])]]

\* C16: a solve call on a built Simplex changes nothing in the instance but
\* the value and multiplier of controllers: shapes, progressions, state
\* lists, TriSpaces, exact flags and the built, loaded and hasParseError
\* flags are after the call what they were before.
C16_SolveChangesOnlyTransients ==
    [][(last'.op = "solve" /\ ~last'.ub /\ ~last'.oob /\ simp.built)
        => Frame(simp') = Frame(simp)]_vars

\* A solve on a built Simplex has written a floater's value and a
\* traversal's multiplier.
C16_Witness ==
    /\ Solved /\ ~last.oob /\ simp.built
    /\ \E i \in 1..Len(simp.floaters) : simp.floaters[i].value # Zero
    /\ \E i \in 1..Len(simp.traversals) : simp.traversals[i].multiplier # One

\* C18: on a loaded Simplex build sets built, and a build call on a built
\* Simplex leaves the whole instance, TriSpaces and flags included, as the
\* earlier build left it, so that later solve calls return the same outputs.
C18_BuildIdempotent ==
    [][(last'.op = "build" /\ simp.loaded)
        => (simp'.built /\ (simp.built => simp' = simp))]_vars

\* build was called on a Simplex that was already built and has TriSpaces.
C18_Witness ==
    last.op = "build" /\ last.flag /\ simp.loaded /\ simp.built /\ simp.spaces # <<>>


\* The storeValue calls one solve call makes, and the order the
\* documentation gives them: sliders, combos, TriSpaces, traversals, each
\* group in definition order.
AllStores(s) ==
    {<<"slider", i>> : i \in 1..Len(s.sliders)} \cup {<<"combo", i>> : i \in 1..Len(s.combos)}
        \cup {<<"space", i>> : i \in 1..Len(s.spaces)}
        \cup {<<"traversal", i>> : i \in 1..Len(s.traversals)}

GroupRank(kind) ==
    CASE kind = "slider" -> 1 [] kind = "combo" -> 2 [] kind = "space" -> 3 [] OTHER -> 4

StoredBefore(e, f) ==
    \/ GroupRank(e[1]) < GroupRank(f[1])
    \/ GroupRank(e[1]) = GroupRank(f[1]) /\ e[2] < f[2]

\* C15: at every point of a solve call the storeValue calls made so far come
\* before every storeValue call still to be made in the order sliders,
\* combos, TriSpaces, traversals, definition order within a group; and once
\* a controller has added its contribution to the output every storeValue
\* call of the solve call has been made.
C15_StoreOrderThenAccumulate ==
    \A t \in Threads :
        /\ calls[t].stored \subseteq AllStores(simp)
        /\ \A e \in calls[t].stored, f \in AllStores(simp) \ calls[t].stored :
              StoredBefore(e, f)
        /\ calls[t].solved # {} => calls[t].stored = AllStores(simp)
        /\ calls[t].pc = "done" => calls[t].stored = AllStores(simp)

\* A solve call that ran to its end on a Simplex with combos, a TriSpace and
\* a traversal, while the other thread was inside its own solve call.
C15_Witness ==
    \E t \in Threads, u \in Threads :
        /\ calls[t].pc = "done"
        /\ simp.combos # <<>> /\ simp.spaces # <<>> /\ simp.traversals # <<>>
        /\ calls[t].stored = AllStores(simp)
        /\ Cardinality(calls[t].solved) = Len(SolveOrder(simp))
        /\ u # t /\ calls[u].pc = "store" /\ calls[u].stored # {}

\* C17: a solve call during which no other thread made a storeValue call on
\* the instance returns the output of the same call run alone; with a
\* storeValue call of another thread in between the output can differ
\* (C17_Witness).
C17_DiffersOnlyWhenInterleaved ==
    \A t \in Threads :
        (calls[t].pc = "done" /\ ~calls[t].mixed) => calls[t].output = calls[t].alone

\* A solve call that another thread's storeValue calls interleaved with, and
\* whose output is not the output of the same call run alone.
C17_Witness ==
    \E t \in Threads :
        /\ calls[t].pc = "done"
        /\ calls[t].mixed
        /\ calls[t].output # calls[t].alone


\* The values v_i = min(|slider_i value|, 1) of the sliders of a combo.
ClampedAbs(c, sliders) ==
    [i \in 1..Len(c.stateList) |->
        IF RGt(fabs(sliders[c.stateList[i].slider].value), One) THEN One
        ELSE fabs(sliders[c.stateList[i].slider].value)]

\* The value the documentation gives a combo over the values v.
DocumentedValue(v, solveType, mn, mx, prod, sum) ==
    CASE solveType \in {"min", "None"} -> mn
      [] solveType = "allMul" -> prod
      [] solveType = "extMul" -> RMul(mx, mn)
      [] solveType = "mulAvgExt" ->
            IF RAdd(mx, mn) = Zero THEN Zero ELSE RDiv(RMul(RInt(2), RMul(mx, mn)), RAdd(mx, mn))
      [] OTHER -> IF sum = Zero THEN Zero ELSE RDiv(RMul(RInt(Len(v)), prod), sum)

Documented(v, solveType) ==
    DocumentedValue(v, solveType, RMinSeq(v, PosInf), RMaxSeq(v, NegInf), RProdSeq(v),
                    RSumSeq(v))

\* Sign agreement with zero counted as positive.
SignAgrees(val, tar) == RLt(val, Zero) = RLt(tar, Zero)

\* The combos the claim is about: enabled, not a floater, every slider value
\* agreeing in sign with its target, and not a soft minimum.
ComboCase(c, sliders) ==
    /\ c.enabled /\ ~c.isFloater
    /\ \A i \in 1..Len(c.stateList) :
          SignAgrees(sliders[c.stateList[i].slider].value, c.stateList[i].val)
    /\ c.solveType \in {"min", "None"} => c.exact

ComboValueAsDocumented(c, sliders, after) ==
    /\ after.value = Documented(ClampedAbs(c, sliders), c.solveType)
    /\ RGe(after.value, Zero) /\ RLe(after.value, One)

\* C21: for every enabled non-floater combo whose slider values
\* agree in sign with their targets, storeValue leaves the documented
\* aggregate of v_i = min(|slider_i value|, 1), a number in [0, 1].
C21_ComboValueAsDocumented ==
    (last.op = "Combo::storeValue" /\ ComboCase(last.input.combo, last.input.sliders))
        => ComboValueAsDocumented(last.input.combo, last.input.sliders, last.output)

\* Slider values outside the tolerance band of utils.h: zero, or larger than
\* EPS in magnitude.
OutsideBand(c, sliders) ==
    \A i \in 1..Len(c.stateList) :
        \/ sliders[c.stateList[i].slider].value = Zero
        \/ RGt(fabs(sliders[c.stateList[i].slider].value), EPS)

\* The same for slider values that are zero or larger than EPS in magnitude:
\* there the documented aggregate is what storeValue leaves.
ComboValueOutsideBand ==
    (/\ last.op = "Combo::storeValue"
     /\ ComboCase(last.input.combo, last.input.sliders)
     /\ OutsideBand(last.input.combo, last.input.sliders))
        => ComboValueAsDocumented(last.input.combo, last.input.sliders, last.output)

\* A two-slider mulAvgAll combo with one slider past 1 and one below, which
\* held another value before the call.
ComboValueOutsideBandReached ==
    /\ last.op = "Combo::storeValue"
    /\ ComboCase(last.input.combo, last.input.sliders)
    /\ OutsideBand(last.input.combo, last.input.sliders)
    /\ last.input.combo.solveType = "mulAvgAll"
    /\ Len(last.input.sliders) = 2
    /\ RGt(fabs(last.input.sliders[1].value), One)
    /\ last.input.sliders[2].value = Half
    /\ last.output.value # last.input.combo.value
    /\ last.output.value = <<2, 3>>


\* Where the slider sl is among the pairs of a list.
PlacesIn(pairs, sl) == {i \in 1..Len(pairs) : pairs[i].slider = sl}

Holds(pairs, sl, v) == \E i \in PlacesIn(pairs, sl) : pairs[i].val = v

\* The slider sl of a traversal t built from the states start and end is
\* where the documentation puts it.
Placed(t, start, end, sl) ==
    LET inMult == PlacesIn(t.multState, sl)
        inProg == PlacesIn(t.progStartState, sl)
    IN IF start[sl] = NaN /\ end[sl] = NaN THEN inMult = {} /\ inProg = {}
       ELSE /\ Cardinality(inMult) + Cardinality(inProg) = 1
            /\ IF start[sl] = end[sl] THEN Holds(t.multState, sl, start[sl])
               ELSE \E i \in inProg :
                      /\ t.progStartState[i].val = (IF start[sl] = NaN THEN Zero ELSE start[sl])
                      /\ t.progDeltaState[i].val =
                            (IF start[sl] = NaN THEN end[sl]
                             ELSE IF end[sl] = NaN THEN RNeg(start[sl])
                             ELSE RSub(end[sl], start[sl]))

\* C22: every slider of the start and end states of a traversal is in
\* multState when both states give it the same value, and otherwise once in
\* progStart and progDelta with the documented start value and delta;
\* progStart and progDelta have the same length and name the same slider at
\* each position.
C22_TraversalPartition ==
    last.op = "Traversal::Traversal" =>
        /\ \A sl \in TravSliders : Placed(last.output, last.input.start, last.input.end, sl)
        /\ Len(last.output.progStartState) = Len(last.output.progDeltaState)
        /\ \A i \in 1..Len(last.output.progStartState) :
              last.output.progStartState[i].slider = last.output.progDeltaState[i].slider

\* A traversal with one slider of each kind: only in start, in both with
\* equal values, in both with different values.
C22_Witness ==
    /\ last.op = "Traversal::Traversal"
    /\ last.input.start = (1 :> Half @@ 2 :> One @@ 3 :> Zero)
    /\ last.input.end = (1 :> NaN @@ 2 :> One @@ 3 :> One)
    /\ Len(last.output.multState) = 1
    /\ Len(last.output.progStartState) = 2
    /\ Holds(last.output.progDeltaState, 1, RNeg(Half))
    /\ Holds(last.output.progDeltaState, 3, One)


\* The storeValue call thread t makes in a step, if any.
StoredNow(t) == calls'[t].stored \ calls[t].stored

\* C23: a storeValue call of a solve on a combo with isFloater = true
\* changes nothing in the instance, and a step of a solve changes a floater
\* only when it is the storeValue call of a TriSpace that holds the floater,
\* and then only the floater's value.
C23_FloaterDrivenByTriSpace ==
    [][/\ \A t \in Threads : \A e \in StoredNow(t) :
             (e[1] = "combo" /\ simp.combos[e[2]].isFloater) => simp' = simp
       /\ \A i \in 1..Len(simp.floaters) :
             (simp.built /\ simp'.built /\ simp'.floaters[i] # simp.floaters[i]) =>
                /\ \E t \in Threads : \E e \in StoredNow(t) :
                      /\ e[1] = "space"
                      /\ \E m \in 1..Len(simp.spaces[e[2]].floaters) :
                            simp.spaces[e[2]].floaters[m] = i
                /\ simp'.floaters[i] = [simp.floaters[i] EXCEPT !.value = simp'.floaters[i].value]
      ]_vars

\* A solve call past its storeValue loops that called storeValue on a combo
\* with isFloater = true, whose value is still 0, while the TriSpace gave the
\* floater a value.
C23_Witness ==
    \E t \in Threads :
        /\ calls[t].pc \in {"solve", "done"}
        /\ \E i \in 1..Len(simp.combos) :
              /\ simp.combos[i].isFloater /\ simp.combos[i].enabled
              /\ <<"combo", i>> \in calls[t].stored
              /\ simp.combos[i].value = Zero
        /\ \E j \in 1..Len(simp.floaters) : simp.floaters[j].value # Zero


Ascending(pairs) == \A i \in 1..(Len(pairs) - 1) : RLe(pairs[i].time, pairs[i + 1].time)

UniqueTimes(pairs) == \A i, j \in 1..Len(pairs) : i # j => pairs[i].time # pairs[j].time

\* C25: after a progression is parsed successfully its pairs are in
\* ascending order of parameter and no two of them have the same parameter.
C25_PairsSortedAndUnique ==
    (last.op = "Progression::parseJSON" /\ last.ret) =>
        \A k \in 1..Len(last.output) :
            Ascending(last.output[k].pairs) /\ UniqueTimes(last.output[k].pairs)

\* The part of it the constructor's sort gives: ascending order.
PairsSorted ==
    (last.op = "Progression::parseJSON" /\ last.ret) =>
        \A k \in 1..Len(last.output) : Ascending(last.output[k].pairs)


\* The sum of the weights of an output of getOutput.
WeightSum(out) == RSumSeq([i \in 1..Len(out) |-> out[i][2]])

\* A progression of at least two pairs sampled inside its range, by linear
\* or by spline interpolation.
SampledInside(prog, tVal) ==
    /\ prog.interp \in {"linear", "spline"}
    /\ Len(prog.pairs) >= 2
    /\ RLe(prog.pairs[1].time, tVal) /\ RLe(tVal, prog.pairs[Len(prog.pairs)].time)

\* C26: for a progression with at least two pairs and a parameter inside its
\* sampled range, the weights getOutput(t, mul) returns sum to mul, for
\* linear and for spline interpolation.
C26_WeightsSumToMul ==
    (last.op = "Progression::getOutput" /\ SampledInside(last.input.prog, last.input.tVal))
        => WeightSum(last.output) = last.input.mul

\* The same for progressions whose pairs have distinct parameters.
WeightsSumToMulWhenUnique ==
    (/\ last.op = "Progression::getOutput"
     /\ SampledInside(last.input.prog, last.input.tVal)
     /\ UniqueTimes(last.input.prog.pairs))
        => WeightSum(last.output) = last.input.mul

\* A spline of four pairs sampled in its middle interval.
WeightsSumToMulReached ==
    /\ last.op = "Progression::getOutput"
    /\ last.input.prog.interp = "spline"
    /\ Times(last.input.prog.pairs) = <<RNeg(One), Zero, Half, One>>
    /\ last.input.tVal = <<1, 4>>
    /\ Len(last.output) = 4
    /\ WeightSum(last.output) = last.input.mul


\* The parameters of the pairs of a progression that name the shape.
TimesOfShape(prog, shape) ==
    {prog.pairs[j].time : j \in {k \in 1..Len(prog.pairs) : prog.pairs[k].shape = shape}}

\* C27: getOutput of a splitSpline progression gives a weight only to shapes
\* whose pair parameter is on the side of zero that t is on: parameter >= 0
\* when t >= 0, parameter <= 0 when t < 0.
C27_SplitSplineStaysOnSide ==
    (last.op = "Progression::getOutput" /\ last.input.prog.interp = "splitSpline") =>
        \A i \in 1..Len(last.output) :
            \A time \in TimesOfShape(last.input.prog, last.output[i][1]) :
                IF RGe(last.input.tVal, Zero) THEN RGe(time, Zero) ELSE RLe(time, Zero)

\* A splitSpline with pairs at -1, 0, 0.5 and 1 sampled at 0.25: the three
\* shapes at 0, 0.5 and 1 get the weights.
C27_Witness ==
    /\ last.op = "Progression::getOutput"
    /\ last.input.prog.interp = "splitSpline"
    /\ Times(last.input.prog.pairs) = <<RNeg(One), Zero, Half, One>>
    /\ last.input.tVal = <<1, 4>>
    /\ Len(last.output) = 3
    /\ \E i \in 1..3 : last.output[i][2] # Zero
    /\ WeightSum(last.output) = last.input.mul


InUnit(x) == IsFinite(x) /\ RGe(x, Zero) /\ RLe(x, One)

\* C28: after storeValue on an enabled traversal its value and its
\* multiplier are finite and lie in [0, 1], whatever the sliders hold and
\* whatever the start and end states are.
C28_TraversalValuesInUnit ==
    (last.op = "Traversal::storeValue" /\ last.input.traversal.enabled) =>
        InUnit(last.output.value) /\ InUnit(last.output.multiplier)

\* The same for traversals with a slider in multState and one in progStart.
TraversalValuesInUnitWhenBothSides ==
    (/\ last.op = "Traversal::storeValue" /\ last.input.traversal.enabled
     /\ last.input.traversal.multState # <<>>
     /\ last.input.traversal.progStartState # <<>>) =>
        InUnit(last.output.value) /\ InUnit(last.output.multiplier)


\* C29: in every state reached through clear, parseJSON, build, clearValues,
\* setExactSolve and solve calls every stored pointer (progression to shape,
\* controller to progression, combo or traversal pair to slider, TriSpace to
\* floater) points at a live element: no vector that is pointed into has
\* grown since the pointers were taken.
C29_HandlesStayLive == ~simp.mayDangle


\* A 0 followed by a signed permutation of 1..n.
IsEncoding(enc, n) ==
    /\ Len(enc) = n + 1
    /\ enc[1] = 0
    /\ {IAbs(enc[k]) : k \in 2..(n + 1)} = 1..n

EncodingAmongAdjacent ==
    /\ IsEncoding(last.output.simp, Len(last.input.pt))
    /\ \E k \in 1..Len(last.output.adj) : last.output.adj[k] = last.output.simp

\* C30 as stated: for every point with non-negative coordinates and every
\* tolerance eps >= 0, pointToSimp(p) is a 0 followed by a signed
\* permutation of 1..n and is one of the encodings of pointToAdjSimp(p, eps).
C30_EncodingAmongAdjacentAsStated ==
    last.op = "TriSpace::pointToSimp" => EncodingAmongAdjacent

\* C30: the same for every tolerance eps > 0.
C30_EncodingAmongAdjacent ==
    (last.op = "TriSpace::pointToSimp" /\ RGt(last.input.eps, Zero)) => EncodingAmongAdjacent

\* A point with two coordinates closer than the tolerance: pointToAdjSimp
\* returns both orders of the two axes, pointToSimp one of them.
C30_Witness ==
    /\ last.op = "TriSpace::pointToSimp"
    /\ last.input.pt = <<Half, <<101, 200>>, <<1, 4>>>>
    /\ last.input.eps = AdjEps
    /\ Len(last.output.adj) = 2
    /\ last.output.simp = <<0, 2, 1, 3>>
    /\ EncodingAmongAdjacent

=============================================================================
